---- MODULE Spec2Model ----
(***************************************************************************)
(* Run registry of RAG_V: the SQLite tables behind ParserManager,          *)
(* ChunkingManager, IndexManager and the embedding configuration, the one  *)
(* shared sqlite3 connection they all write through, the parse and index  *)
(* batches of ParallelFileProcessingPipeline, and the Indexer adapter over *)
(* the FAISS vectorstore with its callers.                                 *)
(*                                                                         *)
(* A table is a set of rows (records).  AUTOINCREMENT keys come from the   *)
(* sqlite_sequence counters kept in db.seq, so a deleted id is never       *)
(* handed out again.  A file path is a sequence of path components; the    *)
(* LIKE 'folder/%' patterns of the source are modelled as "proper prefix". *)
(***************************************************************************)
EXTENDS Integers, Sequences, FiniteSets, TLC

\* ---------------------------------------------------------------- bounds
MaxParseRun == 2
MaxParsed == 3
MaxChunkRun == 3
MaxChunks == 2
MaxIndexRun == 2
MaxTime == 1
MaxCascadeParsed == 2
MaxCascadeChunkRun == 2
MaxChunksPerDoc == 2
MaxVersion == 2
MaxFiles == 1
MaxBatchRows == 1
MaxK == 2
MaxRetrievalChunks == 3
MaxKnowledgebaseId == 4

\* ------------------------------------------------------------ input sets
KbArgs == {1, 2, 3}
FileArgs == {1, 2, 4}
EmbArgs == {"e1", "e2"}
PathArgs == {<<"k1">>, <<"k1", "a">>, <<"k2">>, <<"k1", "zz">>}
KbNameArgs == {"k1", "k3", "k4"}
RootPathArgs == {<<"k1">>, <<"k3">>, <<"k4">>}
ParseRunArgs == 1..MaxParseRun
\* Knowledge base names and embedding configuration ids as the API accepts
\* them: any string, with or without underscores.
IndexerKbArgs == {"k1", "k1_1"}
IndexerEmbArgs == {"e1", "1_e1"}
ChunkRunArgs == 1..(MaxChunkRun + 1)
IndexRunArgs == 1..MaxIndexRun
DocArgs == {1, 2}
Threads == {"t1", "t2"}

VARIABLES conn, last, now, batch, indexer, threads, index_batch

vars == <<conn, last, now, batch, indexer, threads, index_batch>>

\* ------------------------------------------------------------ SQL values
\* A bound SQL parameter with its storage class: an INTEGER column never
\* equals a TEXT parameter that is not numeric (a timestamp string).
SqlInteger(v) == [ty |-> "INTEGER", v |-> v]
SqlText(v) == [ty |-> "TEXT", v |-> v]
SqlEqInt(col, param) == param.ty = "INTEGER" /\ param.v = col
\* A python dict has no SQL storage class: binding it raises ProgrammingError.
PyDict(v) == [ty |-> "dict", v |-> v]
SqlBindable(param) == param.ty \in {"INTEGER", "TEXT"}

Max(S) == CHOOSE x \in S : \A y \in S : y <= x

IsPrefix(p, q) == Len(p) < Len(q) /\ SubSeq(q, 1, Len(p)) = p

\* --------------------------------------------------------- the connection
\* db is what the connection reads and writes, disk what has been committed.
\* python's sqlite3 opens a transaction before every INSERT/UPDATE/DELETE,
\* also before one that then fails.
Commit(c) == [db |-> c.db, disk |-> c.db, in_txn |-> FALSE]
Rollback(c) == [db |-> c.disk, disk |-> c.disk, in_txn |-> FALSE]
Dml(c, d) == [db |-> d, disk |-> c.disk, in_txn |-> TRUE]

Returns(c, v) == [conn |-> c, raised |-> FALSE, ret |-> v]
Raises(c, e) == [conn |-> c, raised |-> TRUE, ret |-> e]

\* ------------------------------------------- schema: cascades and triggers
\* index_run has no children.
DeleteIndexRuns(d, ids) ==
    [d EXCEPT !.index_run = {r \in @ : r.id \notin ids}]

\* chunk_run: chunks and index_run reference it ON DELETE CASCADE.  The
\* delete_empty_chunk_run trigger finds the chunk_run row already gone.
DeleteChunkRuns(d, ids) ==
    LET d1 == [d EXCEPT !.chunk_run = {r \in @ : r.id \notin ids},
                        !.chunks = {r \in @ : r.chunk_run_id \notin ids}]
    IN  DeleteIndexRuns(d1, {r.id : r \in {x \in d1.index_run : x.chunk_run_id \in ids}})

\* chunks without the trigger.
DeleteChunks_no_trigger(d, ids) ==
    [d EXCEPT !.chunks = {r \in @ : r.id \notin ids}]

\* chunks, with the trigger delete_empty_chunk_run AFTER DELETE ON chunks.
DeleteChunks(d, ids) ==
    LET gone == {r \in d.chunks : r.id \in ids}
        d1 == [d EXCEPT !.chunks = @ \ gone]
        empty == {r.chunk_run_id : r \in gone} \ {r.chunk_run_id : r \in d1.chunks}
    IN  DeleteChunkRuns(d1, empty)

\* parse_run: parsed and chunks reference it ON DELETE CASCADE.
DeleteParseRuns(d, ids) ==
    LET d1 == [d EXCEPT !.parse_run = {r \in @ : r.id \notin ids},
                        !.parsed = {r \in @ : r.parse_run_id \notin ids}]
    IN  DeleteChunks(d1, {r.id : r \in {x \in d1.chunks : x.parse_run_id \in ids}})

\* parsed, with the trigger delete_empty_parse_run AFTER DELETE ON parsed.
DeleteParsed(d, ids) ==
    LET gone == {r \in d.parsed : r.parse_id \in ids}
        d1 == [d EXCEPT !.parsed = @ \ gone]
        empty == {r.parse_run_id : r \in gone} \ {r.parse_run_id : r \in d1.parsed}
    IN  DeleteParseRuns(d1, empty)

\* files: files.parent, parse_run, parsed and chunks reference it ON DELETE
\* CASCADE.  ids with every row below them in the folder tree.
RECURSIVE WithChildren(_, _)
WithChildren(d, ids) ==
    LET children == {f.file_id : f \in {x \in d.files : x.parent \in ids}}
    IN  IF children \subseteq ids THEN ids ELSE WithChildren(d, ids \cup children)

\* DELETE FROM files whose chunks rows stay behind.
DeleteFiles_keeping_chunks(d, ids) ==
    LET gone == WithChildren(d, ids)
        d1 == [d EXCEPT !.files = {f \in @ : f.file_id \notin gone}]
        d2 == [d1 EXCEPT !.parse_run = {r \in @ : r.file_id \notin gone},
                         !.parsed = {r \in @ : r.file_id \notin gone}]
    IN  d2

DeleteFiles(d, ids) ==
    LET gone == WithChildren(d, ids)
        d1 == [d EXCEPT !.files = {f \in @ : f.file_id \notin gone}]
        d2 == DeleteParseRuns(d1, {r.id : r \in {x \in d1.parse_run : x.file_id \in gone}})
        d3 == DeleteParsed(d2, {r.parse_id : r \in {x \in d2.parsed : x.file_id \in gone}})
    IN  DeleteChunks(d3, {r.id : r \in {x \in d3.chunks : x.file_id \in gone}})

\* embedding_configure: index_run references it ON DELETE CASCADE.
DeleteEmbeddingConfigures(d, ids) ==
    LET d1 == [d EXCEPT !.embedding_configure = {r \in @ : r.id \notin ids}]
    IN  DeleteIndexRuns(d1, {r.id : r \in {x \in d1.index_run : x.embedding_configure_id \in ids}})

\* ------------------------------------------------------------ table reads
FileIds(d) == {f.file_id : f \in d.files}
KbIds(d) == {k.id : k \in d.knowledgebase}
ParseRunIds(d) == {r.id : r \in d.parse_run}
ChunkRunIds(d) == {r.id : r \in d.chunk_run}
EmbIds(d) == {r.id : r \in d.embedding_configure}

\* SELECT ... FROM files WHERE file_id = ?, columns in the order of the SELECT.
get_file_by_id(d, file_id) ==
    LET rows == {f \in d.files : f.file_id = file_id}
    IN  IF rows = {} THEN <<>>
        ELSE LET f == CHOOSE f \in rows : TRUE
             IN  << SqlInteger(f.file_id), SqlText("filename"), SqlText(f.filepath),
                    SqlText("parsed_text"), SqlText(f.uploaded_time),
                    SqlInteger(f.knowledgebase_id), SqlInteger(0), SqlText("description"),
                    SqlText(f.type), SqlInteger(f.parent) >>

get_chunk_run_config(d, chunk_run_id) ==
    {r \in d.chunk_run : r.id = chunk_run_id}

\* ------------------------------------------------------------ ParserManager
create_parse_run(c, file_id, t) ==
    IF file_id \notin FileIds(c.db)
    THEN Raises(Dml(c, c.db), "IntegrityError")
    ELSE LET id == c.db.seq.parse_run + 1
             d1 == [c.db EXCEPT !.parse_run = @ \cup {[id |-> id, file_id |-> file_id, time |-> t]},
                                !.seq.parse_run = id]
         IN  Returns(Commit(Dml(c, d1)), <<id, t>>)

\* add_parsed_content with the deactivation issued before the INSERT.
add_parsed_content_deactivate_first(c, file_id, parse_run_id, parse_run_time, is_active) ==
    LET d0 == IF is_active
              THEN [c.db EXCEPT !.parsed =
                      {IF r.file_id = file_id THEN [r EXCEPT !.is_active = 0] ELSE r : r \in @}]
              ELSE c.db
    IN  IF file_id \notin FileIds(c.db) \/ parse_run_id \notin ParseRunIds(c.db)
        THEN Raises(Dml(c, d0), "IntegrityError")
        ELSE LET parsed_id == c.db.seq.parsed + 1
                 row == [parse_id |-> parsed_id, file_id |-> file_id, parse_run_id |-> parse_run_id,
                         is_active |-> IF is_active THEN 1 ELSE 0, time |-> parse_run_time]
                 d1 == [d0 EXCEPT !.parsed = @ \cup {row}, !.seq.parsed = parsed_id]
             IN  Returns(Commit(Dml(c, d1)), parsed_id)

add_parsed_content(c, file_id, parse_run_id, parse_run_time, is_active) ==
    IF file_id \notin FileIds(c.db) \/ parse_run_id \notin ParseRunIds(c.db)
    THEN Raises(Dml(c, c.db), "IntegrityError")
    ELSE LET parsed_id == c.db.seq.parsed + 1
             row == [parse_id |-> parsed_id, file_id |-> file_id, parse_run_id |-> parse_run_id,
                     is_active |-> IF is_active THEN 1 ELSE 0, time |-> parse_run_time]
             d1 == [c.db EXCEPT !.parsed = @ \cup {row}, !.seq.parsed = parsed_id]
             d2 == IF is_active
                   THEN [d1 EXCEPT !.parsed =
                           {IF r.file_id = file_id /\ r.parse_id # parsed_id
                            THEN [r EXCEPT !.is_active = 0] ELSE r : r \in @}]
                   ELSE d1
         IN  Returns(Commit(Dml(c, d2)), parsed_id)

set_active_parse_run(c, file_id, parse_run_id) ==
    LET d1 == [c.db EXCEPT !.parsed =
                  {IF r.file_id = file_id THEN [r EXCEPT !.is_active = 0] ELSE r : r \in @}]
        hit == {r \in d1.parsed : r.file_id = file_id /\ r.parse_run_id = parse_run_id}
        d2 == [d1 EXCEPT !.parsed = {IF r \in hit THEN [r EXCEPT !.is_active = 1] ELSE r : r \in @}]
    IN  Returns(Commit(Dml(c, d2)), hit # {})

\* SELECT ... FROM parsed WHERE file_id = ? ORDER BY time DESC LIMIT 1: SQL
\* leaves the order of rows with equal time open; prefer breaks the tie.
LatestParsed(d, file_id, prefer) ==
    LET rows == {r \in d.parsed : r.file_id = file_id}
        top == {r \in rows : \A o \in rows : o.time <= r.time}
        liked == {r \in top : r.parse_id \in prefer}
        pool == IF liked # {} THEN liked ELSE top
    IN  {r \in pool : \A o \in pool : r.parse_id <= o.parse_id}

\* cur.fetchone() of SELECT is_active FROM parsed WHERE parse_run_id = ? AND
\* file_id = ?: the first row in rowid order, None when there is none.
WasActive(d, parse_run_id, file_id) ==
    LET rows == {r \in d.parsed : r.parse_run_id = parse_run_id /\ r.file_id = file_id}
    IN  rows # {} /\ (CHOOSE r \in rows : \A o \in rows : r.parse_id <= o.parse_id).is_active = 1

DesyncAll(d, knowledgebase_id) ==
    [d EXCEPT !.chunk_run =
        {IF r.knowledgebase_id = knowledgebase_id THEN [r EXCEPT !.in_sync = 0] ELSE r : r \in @}]

delete_parse_run(c, parse_run_id, filepath, prefer) ==
    LET info == {f \in c.db.files : f.filepath = filepath}
    IN  IF info = {} THEN Raises(c, "ValueError")
        ELSE
        LET f == CHOOSE f \in info : TRUE
            d0 == c.db
        IN  IF f.type = "file"
            THEN LET was_active == WasActive(d0, parse_run_id, f.file_id)
                     d1 == DeleteParsed(d0, {r.parse_id : r \in
                              {x \in d0.parsed : x.parse_run_id = parse_run_id /\ x.file_id = f.file_id}})
                     latest == LatestParsed(d1, f.file_id, prefer)
                     d2 == IF was_active
                           THEN [d1 EXCEPT !.parsed =
                                   {IF r \in latest THEN [r EXCEPT !.is_active = 1] ELSE r : r \in @}]
                           ELSE d1
                 IN  Returns(Commit(Dml(c, DesyncAll(d2, f.knowledgebase_id))), TRUE)
            ELSE LET folder_file_ids == {g.file_id : g \in
                              {x \in d0.files : x.filepath = filepath \/ IsPrefix(filepath, x.filepath)}}
                     files_with_active_deletion ==
                         {id \in folder_file_ids : WasActive(d0, parse_run_id, id)}
                     d1 == DeleteParsed(d0, {r.parse_id : r \in
                              {x \in d0.parsed : x.parse_run_id = parse_run_id
                                                 /\ x.file_id \in folder_file_ids}})
                     promoted == {r \in d1.parsed :
                                    /\ r.file_id \in files_with_active_deletion
                                    /\ \E l \in LatestParsed(d1, r.file_id, prefer) :
                                          l.parse_run_id = r.parse_run_id}
                     d2 == [d1 EXCEPT !.parsed =
                              {IF r \in promoted THEN [r EXCEPT !.is_active = 1] ELSE r : r \in @}]
                 IN  Returns(Commit(Dml(c, DesyncAll(d2, f.knowledgebase_id))), TRUE)

\* ---------------------------------------------------------- ChunkingManager
\* framework is bound only by the INSERT: a value sqlite3 cannot bind (a dict)
\* makes that statement raise after the deactivation has been committed.
save_chunk_run_config(c, knowledgebase_id, framework) ==
    LET d1 == [c.db EXCEPT !.chunk_run =
                  {IF r.knowledgebase_id = knowledgebase_id
                   THEN [r EXCEPT !.is_active = 0] ELSE r : r \in @}]
        c1 == Commit(Dml(c, d1))
    IN  IF ~SqlBindable(framework)
        THEN Raises(Dml(c1, c1.db), "ProgrammingError")
        ELSE IF knowledgebase_id \notin KbIds(c1.db)
        THEN Raises(Dml(c1, c1.db), "IntegrityError")
        ELSE LET chunk_run_id == c1.db.seq.chunk_run + 1
                 row == [id |-> chunk_run_id, knowledgebase_id |-> knowledgebase_id,
                         is_active |-> 1, in_sync |-> 1]
                 d2 == [c1.db EXCEPT !.chunk_run = @ \cup {row}, !.seq.chunk_run = chunk_run_id]
             IN  Returns(Commit(Dml(c1, d2)), chunk_run_id)

\* set_active_chunk_run whose second UPDATE also sets in_sync = 1.
set_active_chunk_run_resync(c, knowledgebase_id, chunk_run_id) ==
    LET d1 == [c.db EXCEPT !.chunk_run =
                  {IF r.knowledgebase_id = knowledgebase_id
                   THEN [r EXCEPT !.is_active = 0] ELSE r : r \in @}]
        c1 == Commit(Dml(c, d1))
        d2 == [c1.db EXCEPT !.chunk_run =
                  {IF r.id = chunk_run_id THEN [r EXCEPT !.is_active = 1, !.in_sync = 1]
                   ELSE r : r \in @}]
    IN  Returns(Commit(Dml(c1, d2)), "None")

set_active_chunk_run(c, knowledgebase_id, chunk_run_id) ==
    LET d1 == [c.db EXCEPT !.chunk_run =
                  {IF r.knowledgebase_id = knowledgebase_id
                   THEN [r EXCEPT !.is_active = 0] ELSE r : r \in @}]
        c1 == Commit(Dml(c, d1))
        d2 == [c1.db EXCEPT !.chunk_run =
                  {IF r.id = chunk_run_id THEN [r EXCEPT !.is_active = 1] ELSE r : r \in @}]
    IN  Returns(Commit(Dml(c1, d2)), "None")

\* cur.executemany(INSERT INTO chunks ...): one INSERT per chunk, in order; the
\* first one that breaks a foreign key raises and leaves the rows before it
\* inserted in the open transaction.
RECURSIVE InsertChunks(_, _, _)
InsertChunks(d, chunks, i) ==
    IF i > Len(chunks) THEN [db |-> d, failed |-> FALSE]
    ELSE LET ch == chunks[i]
         IN  IF \/ ch.file_id \notin FileIds(d)
                \/ ch.parse_run_id \notin ParseRunIds(d)
                \/ ch.chunk_run_id \notin ChunkRunIds(d)
             THEN [db |-> d, failed |-> TRUE]
             ELSE LET id == d.seq.chunks + 1
                      row == [id |-> id, chunk_id |-> ch.chunk_id, file_id |-> ch.file_id,
                              parse_run_id |-> ch.parse_run_id, chunk_run_id |-> ch.chunk_run_id]
                  IN  InsertChunks([d EXCEPT !.chunks = @ \cup {row}, !.seq.chunks = id],
                                   chunks, i + 1)

add_chunks(c, chunks) ==
    LET r == InsertChunks(c.db, chunks, 1)
    IN  IF r.failed THEN Raises(Dml(c, r.db), "IntegrityError")
        ELSE Returns(Commit(IF chunks = <<>> THEN c ELSE Dml(c, r.db)), Len(chunks))

delete_chunk_run(c, chunk_run_id) ==
    IF c.in_txn THEN Raises(Rollback(c), "OperationalError")
    ELSE
    LET c0 == [c EXCEPT !.in_txn = TRUE]
        chunk_run_to_delete == get_chunk_run_config(c0.db, chunk_run_id)
    IN  IF chunk_run_to_delete = {} THEN Raises(Rollback(c0), "TypeError")
        ELSE
        LET run == CHOOSE r \in chunk_run_to_delete : TRUE
            d1 == DeleteChunkRuns(c0.db, {chunk_run_id})
            rest == {r.id : r \in {x \in d1.chunk_run : x.knowledgebase_id = run.knowledgebase_id}}
            d2 == IF run.is_active = 1 /\ rest # {}
                  THEN [d1 EXCEPT !.chunk_run =
                          {IF r.id = Max(rest) THEN [r EXCEPT !.is_active = 1] ELSE r : r \in @}]
                  ELSE d1
        IN  Returns(Commit(Dml(c0, d2)), TRUE)

\* delete_chunks_by_file_id: cur.rowcount counts the rows the statement
\* itself deleted.
delete_chunks_by_file_id(c, file_id) ==
    LET ids == {r.id : r \in {x \in c.db.chunks : x.file_id = file_id}}
    IN  Returns(Commit(Dml(c, DeleteChunks(c.db, ids))), Cardinality(ids))

\* desync_chunk_runs without the knowledgebase_id = ? term of its WHERE.
desync_chunk_runs_any_knowledgebase(c, knowledgebase_id, chunk_run_ids) ==
    LET hit == {r \in c.db.chunk_run : chunk_run_ids = {} \/ r.id \in chunk_run_ids}
        d1 == [c.db EXCEPT !.chunk_run =
                  {IF r \in hit THEN [r EXCEPT !.in_sync = 0] ELSE r : r \in @}]
    IN  Returns(Commit(Dml(c, d1)), Cardinality(hit))

\* knowledgebase_id is the bound parameter as the caller passed it.
desync_chunk_runs(c, knowledgebase_id, chunk_run_ids) ==
    LET hit == {r \in c.db.chunk_run :
                  /\ SqlEqInt(r.knowledgebase_id, knowledgebase_id)
                  /\ (chunk_run_ids = {} \/ r.id \in chunk_run_ids)}
        d1 == [c.db EXCEPT !.chunk_run =
                  {IF r \in hit THEN [r EXCEPT !.in_sync = 0] ELSE r : r \in @}]
    IN  Returns(Commit(Dml(c, d1)), Cardinality(hit))

\* ------------------------------------------------------------- IndexManager
create_index_run_no_unique(c, chunk_run_id, embedding_configure_id) ==
    IF chunk_run_id \notin ChunkRunIds(c.db) \/ embedding_configure_id \notin EmbIds(c.db)
    THEN Returns(Dml(c, c.db), <<FALSE, "Integrity error creating index run">>)
    ELSE LET id == c.db.seq.index_run + 1
             row == [id |-> id, chunk_run_id |-> chunk_run_id,
                     embedding_configure_id |-> embedding_configure_id]
             d1 == [c.db EXCEPT !.index_run = @ \cup {row}, !.seq.index_run = id]
         IN  Returns(Commit(Dml(c, d1)), <<TRUE, "">>)

create_index_run(c, chunk_run_id, embedding_configure_id) ==
    IF \E r \in c.db.index_run : /\ r.chunk_run_id = chunk_run_id
                                 /\ r.embedding_configure_id = embedding_configure_id
    THEN Returns(Dml(c, c.db), <<FALSE, "Index run already exists">>)
    ELSE IF chunk_run_id \notin ChunkRunIds(c.db) \/ embedding_configure_id \notin EmbIds(c.db)
    THEN Returns(Dml(c, c.db), <<FALSE, "Integrity error creating index run">>)
    ELSE LET id == c.db.seq.index_run + 1
             row == [id |-> id, chunk_run_id |-> chunk_run_id,
                     embedding_configure_id |-> embedding_configure_id]
             d1 == [c.db EXCEPT !.index_run = @ \cup {row}, !.seq.index_run = id]
         IN  Returns(Commit(Dml(c, d1)), <<TRUE, "">>)

delete_index_run(c, id) ==
    Returns(Commit(Dml(c, DeleteIndexRuns(c.db, {id}))), TRUE)

\* ------------------------------------------- MemoryManager (embedding config)
update_embedding_configuration(c, id) ==
    LET d1 == [c.db EXCEPT !.embedding_configure =
                  {r \in @ : r.id # id} \cup {[id |-> id, is_active |-> 1]}]
    IN  Returns(Commit(Dml(c, d1)), TRUE)

set_active_embedding_configuration(c, id) ==
    LET d1 == [c.db EXCEPT !.embedding_configure =
                  {[r EXCEPT !.is_active = IF r.id = id THEN 1 ELSE 0] : r \in @}]
        c1 == Commit(Dml(c, d1))
    IN  IF \E r \in d1.embedding_configure : r.is_active = 1
        THEN Returns(c1, id)
        ELSE Raises(Rollback(c1), "ValueError")

delete_embedding_configuration(c, id) ==
    Returns(Commit(Dml(c, DeleteEmbeddingConfigures(c.db, {id}))), id \in EmbIds(c.db))

\* ----------------------------------------------------------------- the API
\* PUT /api/parse-runs/set-active/{file_id}/{parse_run_id}.  get_file_by_id(..)[4]
\* is the fifth column of the SELECT (python counts from 0).
api_set_active_parse_run(c, file_id, parse_run_id) ==
    LET r1 == set_active_parse_run(c, file_id, parse_run_id)
    IN  IF ~r1.ret THEN Returns(r1.conn, FALSE)
        ELSE LET knowledgebase_id == get_file_by_id(r1.conn.db, file_id)[5]
                 r2 == desync_chunk_runs(r1.conn, knowledgebase_id, {})
             IN  Returns(r2.conn, TRUE)

\* ------------------------------------------------- KnowledgebaseManager
\* create_knowledgebase that inserts no root folder.
create_knowledgebase_no_root(c, name, root_path, t) ==
    IF name \in {k.name : k \in c.db.knowledgebase}
    THEN Raises(Dml(c, c.db), "ValueError")
    ELSE LET knowledgebase_id == c.db.seq.knowledgebase + 1
             d1 == [c.db EXCEPT !.knowledgebase = @ \cup {[id |-> knowledgebase_id, name |-> name,
                                                           is_active |-> 1]},
                                !.seq.knowledgebase = knowledgebase_id]
             d3 == [d1 EXCEPT !.knowledgebase =
                       {IF k.is_active = 1 /\ k.id # knowledgebase_id
                        THEN [k EXCEPT !.is_active = 0] ELSE k : k \in @}]
         IN  Returns(Commit(Dml(c, d3)), knowledgebase_id)

\* create_knowledgebase.  A UNIQUE failure of either INSERT leaves the
\* transaction open: after the second one the knowledgebase row is in it.
create_knowledgebase(c, name, root_path, t) ==
    IF name \in {k.name : k \in c.db.knowledgebase}
    THEN Raises(Dml(c, c.db), "ValueError")
    ELSE LET knowledgebase_id == c.db.seq.knowledgebase + 1
             d1 == [c.db EXCEPT !.knowledgebase = @ \cup {[id |-> knowledgebase_id, name |-> name,
                                                           is_active |-> 1]},
                                !.seq.knowledgebase = knowledgebase_id]
         IN  IF root_path \in {f.filepath : f \in d1.files}
             THEN Raises(Dml(c, d1), "ValueError")
             ELSE LET file_id == d1.seq.files + 1
                      d2 == [d1 EXCEPT !.files = @ \cup {[file_id |-> file_id, filepath |-> root_path,
                                                          knowledgebase_id |-> knowledgebase_id,
                                                          type |-> "folder", parent |-> 0,
                                                          uploaded_time |-> t]},
                                       !.seq.files = file_id]
                      d3 == [d2 EXCEPT !.knowledgebase =
                                {IF k.is_active = 1 /\ k.id # knowledgebase_id
                                 THEN [k EXCEPT !.is_active = 0] ELSE k : k \in @}]
                  IN  Returns(Commit(Dml(c, d3)), knowledgebase_id)

\* UPDATE knowledgebase SET is_active = CASE WHEN id = ? THEN 1 ELSE 0 END has
\* no WHERE: rowcount is the number of rows of the table.
set_active_knowledgebase(c, knowledgebase_id) ==
    LET d1 == [c.db EXCEPT !.knowledgebase =
                  {[k EXCEPT !.is_active = IF k.id = knowledgebase_id THEN 1 ELSE 0] : k \in @}]
    IN  Returns(Commit(Dml(c, d1)), c.db.knowledgebase # {})

\* DELETE FROM knowledgebase: files and chunk_run reference it ON DELETE
\* CASCADE.
DeleteKnowledgebases(d, ids) ==
    LET d1 == [d EXCEPT !.knowledgebase = {k \in @ : k.id \notin ids}]
        d2 == DeleteFiles(d1, {f.file_id : f \in {x \in d1.files : x.knowledgebase_id \in ids}})
    IN  DeleteChunkRuns(d2, {r.id : r \in {x \in d2.chunk_run : x.knowledgebase_id \in ids}})

\* delete_knowledgebase.  After deleting the active knowledge base it makes
\* active the first row of ORDER BY updated_at DESC; updated_at has a
\* resolution of one second and SQL leaves the order of equal values open:
\* latest is the row the query returns, one of those left.
delete_knowledgebase(c, knowledgebase_id, latest) ==
    LET kb == {k \in c.db.knowledgebase : k.id = knowledgebase_id}
    IN  IF kb = {} THEN Returns(c, FALSE)
        ELSE IF Cardinality(c.db.knowledgebase) <= 1 THEN Raises(c, "ValueError")
        ELSE LET is_deleted_kb_active == \E k \in kb : k.is_active = 1
                 c1 == Commit(Dml(c, DeleteKnowledgebases(c.db, {knowledgebase_id})))
                 d2 == [c1.db EXCEPT !.knowledgebase =
                           {IF k.id = latest THEN [k EXCEPT !.is_active = 1] ELSE k : k \in @}]
             IN  IF is_deleted_kb_active /\ latest \in KbIds(c1.db)
                 THEN Returns(Commit(Dml(c1, d2)), TRUE)
                 ELSE Returns(c1, TRUE)

\* delete_file whose DELETE leaves the chunks of the file behind.
delete_file_keeping_chunks(c, file_id) ==
    IF file_id \notin FileIds(c.db)
    THEN Returns(c, FALSE)
    ELSE Returns(Commit(Dml(c, DeleteFiles_keeping_chunks(c.db, {file_id}))), TRUE)

delete_file(c, file_id) ==
    IF file_id \notin FileIds(c.db)
    THEN Returns(c, FALSE)
    ELSE Returns(Commit(Dml(c, DeleteFiles(c.db, {file_id}))), TRUE)

\* delete_file_by_path: the file_id, or None when no row has the path.
delete_file_by_path(c, filepath) ==
    LET file_info == {f \in c.db.files : f.filepath = filepath}
    IN  IF file_info = {}
        THEN Returns(c, "None")
        ELSE Returns(Commit(Dml(c, DeleteFiles(c.db, {f.file_id : f \in file_info}))),
                     (CHOOSE f \in file_info : TRUE).file_id)

\* ------------------------------------- ParallelFileProcessingPipeline.parse_files
\* The files of the batch: the file itself, or for a folder every file whose
\* path lies under it, folders included.
get_file_by_path(d, filepath) == {f \in d.files : f.filepath = filepath}

get_files_by_path_prefix(d, filepath) ==
    {f.file_id : f \in {x \in d.files : x.filepath = filepath \/ IsPrefix(filepath, x.filepath)}}

\* The generator object of parse_files: file_ids are the documents of the
\* batch, pending and parsing the tasks not yet started and those waiting for
\* the parser thread, finished the documents in the order their tasks ended,
\* completed the results as_completed holds ready, yielded what the consumer
\* has received.
IdleBatch == [state |-> "idle", knowledgebase_id |-> SqlInteger(0), parse_run_id |-> 0,
              parse_run_time |-> 0, file_ids |-> {}, pending |-> {}, parsing |-> {},
              finished |-> <<>>, completed |-> <<>>, yielded |-> <<>>]

\* The result record of _parse_single_file; status "" stands for a record
\* that has no status key, error "" for one that has no error key.
ParseResult(file_id, status, parsed, error) ==
    [file_id |-> file_id, status |-> status, parsed |-> parsed, error |-> error]

\* _parse_single_file up to its first suspension: a missing file and a folder
\* finish at once, a file waits for the parser thread.
parse_single_file_start(c, b, file_id) ==
    LET file == get_file_by_id(c.db, file_id)
    IN  IF file = <<>>
        THEN [conn |-> c, done |-> TRUE, result |-> ParseResult(file_id, "failed", FALSE, "not found")]
        ELSE IF file[9].v = "folder"
        THEN LET r == add_parsed_content(c, file_id, b.parse_run_id, b.parse_run_time, TRUE)
             IN  IF r.raised
                 THEN [conn |-> r.conn, done |-> TRUE,
                       result |-> ParseResult(file_id, "failed", FALSE, "unexpected")]
                 ELSE [conn |-> r.conn, done |-> TRUE, result |-> ParseResult(file_id, "", TRUE, "")]
        ELSE [conn |-> c, done |-> FALSE, result |-> ParseResult(file_id, "", FALSE, "")]

\* _parse_single_file whose except branch returns a record without status.
parse_single_file_finish_no_status(c, b, file_id, success) ==
    IF success
    THEN LET r == add_parsed_content(c, file_id, b.parse_run_id, b.parse_run_time, TRUE)
         IN  IF r.raised
             THEN [conn |-> r.conn, result |-> ParseResult(file_id, "", FALSE, "unexpected")]
             ELSE [conn |-> r.conn, result |-> ParseResult(file_id, "success", TRUE, "")]
    ELSE [conn |-> c, result |-> ParseResult(file_id, "failed", FALSE, "parser")]

\* _parse_single_file after the parser thread returned parse_result.
parse_single_file_finish(c, b, file_id, success) ==
    IF success
    THEN LET r == add_parsed_content(c, file_id, b.parse_run_id, b.parse_run_time, TRUE)
         IN  IF r.raised
             THEN [conn |-> r.conn, result |-> ParseResult(file_id, "failed", FALSE, "unexpected")]
             ELSE [conn |-> r.conn, result |-> ParseResult(file_id, "success", TRUE, "")]
    ELSE [conn |-> c, result |-> ParseResult(file_id, "failed", FALSE, "parser")]

\* ----------------------------------------------------------------- Indexer
\* A chunk Document: metadata chunk_id is "<file_id>_<chunk_index>", version
\* stands for its page_content.
Chunk(file_id, chunk_index, version) ==
    [chunk_id |-> <<file_id, chunk_index>>, file_id |-> file_id, version |-> version]

\* The chunk lists the splitter can produce for a document: chunk_index counts
\* from 0 without gaps.
ChunkLists(file_id) ==
    UNION { { {Chunk(file_id, i - 1, v[i]) : i \in 1..n} : v \in [1..n -> 1..MaxVersion] }
            : n \in 0..MaxChunksPerDoc }

\* The dicts {file_id: [Document, ..]} passed to index_chunks.
ChunkMaps ==
    UNION { { m \in [S -> UNION {ChunkLists(d) : d \in S}] : \A d \in S : m[d] \in ChunkLists(d) }
            : S \in SUBSET DocArgs }

\* The dicts {file_id: documents} a worker of the pipeline passes: one
\* document, here with at most one chunk.
WorkerChunkMaps ==
    {m \in ChunkMaps : /\ Cardinality(DOMAIN m) = 1
                       /\ \A d \in DOMAIN m : m[d] \subseteq {Chunk(d, 0, 1)}}

\* Indexer.__init__ without an index on disk.  vectorstore is the FAISS store
\* (docstore and index), all_docs its mirror, saved the last save_local, lock
\* the owner of _lock.
NewIndexer == [all_docs |-> {}, vectorstore |-> {}, saved |-> {}, lock |-> "none"]

AdapterReturns(ix) == [ix |-> ix, raised |-> FALSE]
AdapterRaises(ix) == [ix |-> ix, raised |-> TRUE]

\* FAISS.delete(ids): ValueError when an id is not in the store.
vectorstore_delete(vectorstore, ids) ==
    IF ids \subseteq {c.chunk_id : c \in vectorstore}
    THEN [vectorstore |-> {c \in vectorstore : c.chunk_id \notin ids}, raised |-> FALSE]
    ELSE [vectorstore |-> vectorstore, raised |-> TRUE]

\* FAISS.add_embeddings(.., ids): ValueError when an id is already in the
\* docstore.
add_embeddings(vectorstore, chunks) ==
    IF \E c \in chunks : c.chunk_id \in {x.chunk_id : x \in vectorstore}
    THEN [vectorstore |-> vectorstore, raised |-> TRUE]
    ELSE [vectorstore |-> vectorstore \cup chunks, raised |-> FALSE]

existing_chunks_ids(ix, file_ids) == {c.chunk_id : c \in {x \in ix.all_docs : x.file_id \in file_ids}}

delete_file_chunks(ix, file_ids, save) ==
    IF ix.all_docs = {} \/ existing_chunks_ids(ix, file_ids) = {} THEN AdapterReturns(ix)
    ELSE LET r == vectorstore_delete(ix.vectorstore, existing_chunks_ids(ix, file_ids))
         IN  IF r.raised THEN AdapterRaises(ix)
             ELSE AdapterReturns(
                    [ix EXCEPT !.vectorstore = r.vectorstore,
                               !.all_docs = {c \in @ : c.file_id \notin file_ids},
                               !.saved = IF save THEN r.vectorstore ELSE @])

\* A python call of delete_file_chunks: file_ids is a required positional
\* parameter, a call that passes none raises TypeError before the body runs.
delete_file_chunks_call(ix, positional, save) ==
    IF positional = <<>> THEN AdapterRaises(ix)
    ELSE delete_file_chunks(ix, positional[1], save)

\* index_chunks that adds without deleting the documents' chunks first.
index_chunks_no_delete(ix, chunks, save) ==
    LET all_chunks == UNION {chunks[k] : k \in DOMAIN chunks}
    IN  IF all_chunks = {} THEN AdapterReturns(ix)
        ELSE LET r == add_embeddings(ix.vectorstore, all_chunks)
             IN  IF r.raised THEN AdapterRaises(ix)
                 ELSE AdapterReturns(
                        [ix EXCEPT !.vectorstore = r.vectorstore,
                                   !.all_docs = @ \cup all_chunks,
                                   !.saved = IF save THEN r.vectorstore ELSE @])

\* index_chunks without the embedding model failing.
index_chunks(ix, chunks, save) ==
    LET d == delete_file_chunks(ix, DOMAIN chunks, FALSE)
        all_chunks == UNION {chunks[k] : k \in DOMAIN chunks}
    IN  IF d.raised THEN d
        ELSE IF all_chunks = {} THEN d
        ELSE LET r == add_embeddings(d.ix.vectorstore, all_chunks)
             IN  IF r.raised THEN AdapterRaises(d.ix)
                 ELSE AdapterReturns(
                        [d.ix EXCEPT !.vectorstore = r.vectorstore,
                                     !.all_docs = @ \cup all_chunks,
                                     !.saved = IF save THEN r.vectorstore ELSE @])

\* A python call of index_chunks with an argument that is a dict
\* {file_id: documents} or a list of documents: chunks.keys() is the first
\* statement, and a list has no keys (AttributeError).
PyDictOf(m) == [kind |-> "dict", value |-> m]
PyListOf(docs) == [kind |-> "list", value |-> docs]
index_chunks_call(ix, chunks, save) ==
    IF chunks.kind # "dict" THEN AdapterRaises(ix)
    ELSE index_chunks(ix, chunks.value, save)

\* _index_single_batch: the batch becomes a list of Documents, which is what
\* index_chunks is called with; every exception becomes a "failed" record.
index_single_batch(ix, docs) ==
    LET r == index_chunks_call(ix, PyListOf(docs), FALSE)
    IN  [ix |-> r.ix,
         result |-> IF r.raised THEN [status |-> "failed", error |-> "Unexpected error"]
                    ELSE [status |-> "success", error |-> ""]]

save_index(ix) == AdapterReturns([ix EXCEPT !.saved = ix.vectorstore])

\* ---------------------------------------------------------------- retrieval
\* The k a caller asks for.
KArgs == 1..MaxK

\* Scores are fractions <<numerator, denominator>> with a positive
\* denominator.
Rat(n, d) == <<n, d>>
RatAdd(a, b) == <<a[1] * b[2] + b[1] * a[2], a[2] * b[2]>>
RatLess(a, b) == a[1] * b[2] < b[1] * a[2]
RatEq(a, b) == a[1] * b[2] = b[1] * a[2]

\* The orders of a set of chunks.
Rankings(S) ==
    {s \in [1..Cardinality(S) -> S] : \A i, j \in DOMAIN s : i # j => s[i] # s[j]}

FirstN(s, n) == SubSeq(s, 1, IF n < Len(s) THEN n ELSE Len(s))

\* What the store can answer to a query: every stored chunk with a relevance
\* score, the most relevant first.  Which order and which scores depends on
\* the query and the embedding model.
RelevanceArgs == {Rat(1, 2), Rat(1, 1)}
Hits(ix) ==
    UNION { { [i \in DOMAIN s |-> [doc |-> s[i], score |-> rel[s[i]]]]
              : s \in {t \in Rankings(ix.vectorstore) :
                          \A i \in 1..(Len(t) - 1) : ~RatLess(rel[t[i]], rel[t[i + 1]])} }
            : rel \in [ix.vectorstore -> RelevanceArgs] }

\* VectorRetriever.retrieve.  self.indexer.vectorstore is a FAISS object in
\* every Indexer, so the guard on it never raises; the search of an empty
\* index finds nothing.
vector_retrieve(ix, hits, k) == [raised |-> FALSE, ret |-> FirstN(hits, k)]

\* BM25 scores of the chunks for a query, and the orders get_top_n can put
\* the chunks in: best score first, equal scores in either order.
ScoreArgs == {0, 1, 2}
ScoreMaps(ix) == [ix.all_docs -> ScoreArgs]
TopRankings(ix, scores) ==
    {t \in Rankings(ix.all_docs) : \A i \in 1..(Len(t) - 1) : scores[t[i]] >= scores[t[i + 1]]}

\* The number of documents a BM25Retriever returns: invoke() drops the k it
\* is passed, the retriever's own k stays at its default.
BM25Retriever_k == 4

\* BM25BasedRetriever.retrieve.  top is the order of all_docs by BM25 score.
\* BM25Retriever.from_documents raises on an empty list of documents.
bm25_retrieve(ix, top, k) ==
    IF ix.all_docs = {}
    THEN [raised |-> TRUE, ret |-> <<>>]
    ELSE LET documents == FirstN(top, BM25Retriever_k)
         IN  [raised |-> FALSE,
              ret |-> [i \in DOMAIN documents |->
                          [doc |-> documents[i], score |-> Rat(k - (i - 1), k)]]]

\* The RRF constant of FusionRetriever.retrieve.
k_rrf == 60

\* One of the two loops of FusionRetriever.retrieve over a result list, from
\* 0-based position rank on.  fused_scores is the dict in insertion order.
RECURSIVE rrf_accumulate(_, _, _)
rrf_accumulate(fused_scores, results, rank) ==
    IF rank >= Len(results)
    THEN fused_scores
    ELSE LET doc == results[rank + 1].doc
             doc_id == doc.chunk_id
             entered == IF \E i \in DOMAIN fused_scores : fused_scores[i].doc_id = doc_id
                        THEN fused_scores
                        ELSE Append(fused_scores,
                                    [doc_id |-> doc_id, document |-> doc, score |-> Rat(0, 1)])
             added == [i \in DOMAIN entered |->
                          IF entered[i].doc_id = doc_id
                          THEN [entered[i] EXCEPT !.score = RatAdd(@, Rat(1, rank + k_rrf))]
                          ELSE entered[i]]
         IN  rrf_accumulate(added, results, rank + 1)

\* sorted(.., key=score, reverse=True): highest score first, equal scores in
\* the order they had.
RECURSIVE sorted_by_score(_)
sorted_by_score(s) ==
    IF s = <<>>
    THEN <<>>
    ELSE LET rest == sorted_by_score(Tail(s))
             p == Cardinality({i \in DOMAIN rest : RatLess(Head(s).score, rest[i].score)})
         IN  SubSeq(rest, 1, p) \o <<Head(s)>> \o SubSeq(rest, p + 1, Len(rest))

\* FusionRetriever.retrieve without its loop over the BM25 results.
fusion_retrieve_vector_only(ix, hits, top, k) ==
    LET vector_results == vector_retrieve(ix, hits, k * 2)
        bm25_results == bm25_retrieve(ix, top, k * 2)
    IN  IF vector_results.raised \/ bm25_results.raised
        THEN [raised |-> TRUE, ret |-> <<>>]
        ELSE LET fused_scores == rrf_accumulate(<<>>, vector_results.ret, 0)
                 sorted_results ==
                     sorted_by_score([i \in DOMAIN fused_scores |->
                                         [doc |-> fused_scores[i].document,
                                          score |-> fused_scores[i].score]])
             IN  [raised |-> FALSE, ret |-> FirstN(sorted_results, k)]

\* FusionRetriever.retrieve.
fusion_retrieve(ix, hits, top, k) ==
    LET vector_results == vector_retrieve(ix, hits, k * 2)
        bm25_results == bm25_retrieve(ix, top, k * 2)
    IN  IF vector_results.raised \/ bm25_results.raised
        THEN [raised |-> TRUE, ret |-> <<>>]
        ELSE LET fused_scores == rrf_accumulate(rrf_accumulate(<<>>, vector_results.ret, 0),
                                                bm25_results.ret, 0)
                 sorted_results ==
                     sorted_by_score([i \in DOMAIN fused_scores |->
                                         [doc |-> fused_scores[i].document,
                                          score |-> fused_scores[i].score]])
             IN  [raised |-> FALSE, ret |-> FirstN(sorted_results, k)]

\* A caller of the adapter: op is the entry point it called, pc the statement
\* it stands at, inside whether it has begun that statement, file_ids, chunks
\* and save its arguments, ids the existing_chunks_ids it has computed.
IdleThread == [pc |-> "idle", inside |-> FALSE, op |-> "", file_ids |-> {}, chunks |-> {},
               save |-> FALSE, ids |-> {}]

\* The statements that change the index structures.
MutatingSteps == {"vectorstore.delete", "all_docs =", "save_local", "add_embeddings",
                  "all_docs.extend"}

\* The statement after a mutating step that did not raise; index_chunks calls
\* delete_file_chunks without save.
AfterStep(th, step) ==
    IF step = "vectorstore.delete" THEN "all_docs ="
    ELSE IF step = "all_docs ="
         THEN IF th.op = "index_chunks" THEN "embed"
              ELSE IF th.save THEN "save_local" ELSE "idle"
    ELSE IF step = "add_embeddings" THEN "all_docs.extend"
    ELSE IF step = "all_docs.extend"
         THEN IF th.save THEN "save_local" ELSE "idle"
    ELSE "idle"

\* The statement after `with self._lock:`.
AfterLock(th) ==
    IF th.op = "save_index" THEN "save_local"
    ELSE IF th.pc = "lock1" THEN "read" ELSE "add_embeddings"

\* What the step does to the adapter.
StepEffect(ix, th, step) ==
    IF step = "vectorstore.delete"
    THEN LET r == vectorstore_delete(ix.vectorstore, th.ids)
         IN  [ix |-> [ix EXCEPT !.vectorstore = r.vectorstore], raised |-> r.raised]
    ELSE IF step = "all_docs ="
    THEN AdapterReturns([ix EXCEPT !.all_docs = {c \in @ : c.file_id \notin th.file_ids}])
    ELSE IF step = "add_embeddings"
    THEN LET r == add_embeddings(ix.vectorstore, th.chunks)
         IN  [ix |-> [ix EXCEPT !.vectorstore = r.vectorstore], raised |-> r.raised]
    ELSE IF step = "all_docs.extend"
    THEN AdapterReturns([ix EXCEPT !.all_docs = @ \cup th.chunks])
    ELSE AdapterReturns([ix EXCEPT !.saved = ix.vectorstore])

\* index_chunks and save_index run their steps inside `with self._lock`,
\* delete_file_chunks called directly takes no lock.
UnderLock(th) == th.op \in {"index_chunks", "save_index"}

\* The caller reaches pc: a `with self._lock` block it was in has ended when
\* it is back outside one.
Goes(ix, th, t, pc) ==
    [ix |-> IF ix.lock = t /\ pc \in {"idle", "embed"} THEN [ix EXCEPT !.lock = "none"] ELSE ix,
     th |-> IF pc = "idle" THEN IdleThread ELSE [th EXCEPT !.pc = pc, !.inside = FALSE]]

\* The generator object of an indexing batch, op being index_all_chunks or
\* process_files: items is the number of input items (chunks of the chunk
\* run, uploaded files), started whether the batch was accepted (the index
\* run was created), completed the result records ready to be yielded,
\* yielded those the consumer has received, saves the number of save_index
\* calls the generator has made.  state "raised" is a generator that ended
\* with an exception at its consumer.
IdleIndexBatch == [state |-> "idle", op |-> "", items |-> 0, started |-> FALSE,
                   completed |-> <<>>, yielded |-> <<>>, saves |-> 0]

IndexResult(status, error) == [status |-> status, error |-> error]

get_chunks_by_chunk_run_id(d, chunk_run_id) == {ch \in d.chunks : ch.chunk_run_id = chunk_run_id}

\* index_all_chunks that does not look at what create_index_run returned.
index_all_chunks_start_unchecked(c, ix, chunk_run_id, embedding_config_id) ==
    LET r == create_index_run(c, chunk_run_id, embedding_config_id)
        items == Cardinality(get_chunks_by_chunk_run_id(r.conn.db, chunk_run_id))
        b == [IdleIndexBatch EXCEPT !.op = "index_all_chunks", !.items = items]
        d == delete_file_chunks_call(ix, <<>>, FALSE)
    IN  [conn |-> r.conn, ix |-> d.ix,
         batch |-> [b EXCEPT !.state = IF d.raised THEN "raised" ELSE "running",
                             !.started = TRUE]]

\* index_all_chunks from the call of create_index_run to its first
\* suspension.  self.indexer.delete_file_chunks() passes no file_ids, so the
\* call raises and the statements after it (the "No chunks found" record,
\* the tasks of _index_single_batch, save_index) are never reached.
index_all_chunks_start(c, ix, chunk_run_id, embedding_config_id) ==
    LET r == create_index_run(c, chunk_run_id, embedding_config_id)
        items == Cardinality(get_chunks_by_chunk_run_id(r.conn.db, chunk_run_id))
        b == [IdleIndexBatch EXCEPT !.op = "index_all_chunks", !.items = items]
    IN  IF ~r.ret[1]
        THEN [conn |-> r.conn, ix |-> ix,
              batch |-> [b EXCEPT !.state = "running",
                                  !.completed = <<IndexResult("failed", r.ret[2])>>]]
        ELSE LET d == delete_file_chunks_call(ix, <<>>, FALSE)
             IN  IF d.raised
                 THEN [conn |-> r.conn, ix |-> d.ix,
                       batch |-> [b EXCEPT !.state = "raised", !.started = TRUE]]
                 ELSE [conn |-> r.conn, ix |-> d.ix,
                       batch |-> [b EXCEPT !.state = "running", !.started = TRUE,
                                           !.completed =
                                               IF items = 0
                                               THEN <<IndexResult("failed", "No chunks found")>>
                                               ELSE <<>>]]

get_index_run_by_id(d, id) == {r \in d.index_run : r.id = id}

\* DELETE /api/index-runs/{kb_name}/{index_run_id}; ix is the adapter
\* get_indexer returns for the run's chunk run and embedding configuration.
\* A missing run makes index_run["chunk_run_id"] raise, and every exception
\* becomes HTTP 400.
api_delete_index_run(c, ix, index_run_id) ==
    IF get_index_run_by_id(c.db, index_run_id) = {}
    THEN [conn |-> c, ix |-> ix, raised |-> TRUE]
    ELSE LET d == delete_file_chunks_call(ix, <<>>, TRUE)
         IN  IF d.raised THEN [conn |-> c, ix |-> d.ix, raised |-> TRUE]
             ELSE [conn |-> delete_index_run(c, index_run_id).conn, ix |-> d.ix,
                   raised |-> FALSE]

\* get_index_path(user_id, knowledgebase_name) called with the given
\* positional arguments: any other number of them raises TypeError.
get_index_path_call(positional) ==
    IF Len(positional) # 2 THEN [raised |-> TRUE, ret |-> ""]
    ELSE [raised |-> FALSE,
          ret |-> "./index/" \o positional[1] \o "/" \o positional[2]]

\* f"{knowledge_base}_{chunk_run_id}_{embedding_config_id}"
indexer_key(knowledge_base, chunk_run_id, embedding_config_id) ==
    knowledge_base \o "_" \o ToString(chunk_run_id) \o "_" \o embedding_config_id

\* get_indexer with both ids given, on the module's cache indexers (a
\* function from keys to the adapters made for them; an adapter is named by
\* the arguments it was constructed from).  The arguments of Indexer(...) are
\* evaluated before the constructor runs and before the cache is assigned.
get_indexer(indexers, knowledge_base, chunk_run_id, embedding_config_id) ==
    LET key == indexer_key(knowledge_base, chunk_run_id, embedding_config_id)
        path == get_index_path_call(<<knowledge_base, ToString(chunk_run_id), embedding_config_id>>)
    IN  IF key \in DOMAIN indexers
        THEN [indexers |-> indexers, raised |-> FALSE, ret |-> indexers[key]]
        ELSE IF path.raised
        THEN [indexers |-> indexers, raised |-> TRUE, ret |-> "TypeError"]
        ELSE LET made == [user_id |-> embedding_config_id, index_path |-> path.ret]
             IN  [indexers |-> (key :> made) @@ indexers, raised |-> FALSE, ret |-> made]

\* Indexer() in process_files: __init__ requires user_id and index_path.
Indexer_call(positional) ==
    IF Len(positional) < 2 THEN AdapterRaises(NewIndexer) ELSE AdapterReturns(NewIndexer)

\* process_files of a pipeline made for the request (self.indexer is None)
\* up to its first suspension.
process_files_start(files) ==
    LET b == [IdleIndexBatch EXCEPT !.op = "process_files", !.items = files, !.started = TRUE]
    IN  IF Indexer_call(<<>>).raised THEN [b EXCEPT !.state = "raised"]
        ELSE [b EXCEPT !.state = "running"]

\* ------------------------------------------------------------------- Init
InitDb ==
    [ knowledgebase |-> {[id |-> 1, name |-> "k1", is_active |-> 0],
                        [id |-> 2, name |-> "k2", is_active |-> 1]},
      files |-> { [file_id |-> 1, filepath |-> <<"k1">>, knowledgebase_id |-> 1,
                   type |-> "folder", parent |-> 0, uploaded_time |-> 0],
                  [file_id |-> 2, filepath |-> <<"k1", "a">>, knowledgebase_id |-> 1,
                   type |-> "file", parent |-> 1, uploaded_time |-> 0],
                  [file_id |-> 3, filepath |-> <<"k2">>, knowledgebase_id |-> 2,
                   type |-> "folder", parent |-> 0, uploaded_time |-> 0],
                  [file_id |-> 5, filepath |-> <<"k1", "b">>, knowledgebase_id |-> 1,
                   type |-> "file", parent |-> 1, uploaded_time |-> 0] },
      parse_run |-> {}, parsed |-> {}, chunk_run |-> {}, chunks |-> {},
      index_run |-> {}, embedding_configure |-> {},
      seq |-> [parse_run |-> 0, parsed |-> 0, chunk_run |-> 0, chunks |-> 0, index_run |-> 0,
               knowledgebase |-> 2, files |-> 5] ]

Init ==
    /\ conn = [db |-> InitDb, disk |-> InitDb, in_txn |-> FALSE]
    /\ last = [op |-> "init", raised |-> FALSE, ret |-> TRUE]
    /\ now = 0
    /\ batch = IdleBatch
    /\ indexer = NewIndexer
    /\ threads = [t \in Threads |-> IdleThread]
    /\ index_batch = IdleIndexBatch

\* ---------------------------------------------------------------- actions
\* last is what the most recent call handed back to its caller.
Call(op, r) ==
    /\ conn' = r.conn
    /\ last' = [op |-> op, raised |-> r.raised, ret |-> r.ret]

db == conn.db

Tick ==
    /\ now < MaxTime
    /\ now' = now + 1
    /\ UNCHANGED <<conn, last, batch, indexer, threads, index_batch>>

CreateParseRun ==
    \E f \in FileArgs :
        /\ db.seq.parse_run < MaxParseRun
        /\ Call("create_parse_run", create_parse_run(conn, f, now))
        /\ UNCHANGED <<now, batch, indexer, threads, index_batch>>

\* The callers pass the parse run's own time as parse_run_time.
AddParsedContent ==
    \E f \in FileArgs, r \in ParseRunArgs, act \in BOOLEAN :
        /\ db.seq.parsed < MaxParsed
        /\ LET t == IF r \in ParseRunIds(db)
                    THEN (CHOOSE x \in db.parse_run : x.id = r).time ELSE now
           IN  Call("add_parsed_content", add_parsed_content(conn, f, r, t, act))
        /\ UNCHANGED <<now, batch, indexer, threads, index_batch>>

SetActiveParseRun ==
    \E f \in FileArgs, r \in ParseRunArgs :
        /\ Call("set_active_parse_run", set_active_parse_run(conn, f, r))
        /\ UNCHANGED <<now, batch, indexer, threads, index_batch>>

ApiSetActiveParseRun ==
    \E f \in FileArgs, r \in ParseRunArgs :
        /\ Call("api_set_active_parse_run", api_set_active_parse_run(conn, f, r))
        /\ UNCHANGED <<now, batch, indexer, threads, index_batch>>

DeleteParseRun ==
    \E r \in ParseRunArgs, path \in PathArgs, prefer \in SUBSET {x.parse_id : x \in db.parsed} :
        /\ Call("delete_parse_run", delete_parse_run(conn, r, path, prefer))
        /\ UNCHANGED <<now, batch, indexer, threads, index_batch>>

SaveChunkRunConfig ==
    \E kb \in KbArgs :
        /\ db.seq.chunk_run < MaxChunkRun
        /\ Call("save_chunk_run_config", save_chunk_run_config(conn, kb, SqlText("langchain")))
        /\ UNCHANGED <<now, batch, indexer, threads, index_batch>>

\* The same call with a framework value that is not a string.
SaveChunkRunConfigUnbound ==
    \E kb \in KbArgs :
        /\ Call("save_chunk_run_config", save_chunk_run_config(conn, kb, PyDict("langchain")))
        /\ UNCHANGED <<now, batch, indexer, threads, index_batch>>

SetActiveChunkRun ==
    \E kb \in KbArgs, r \in ChunkRunArgs :
        /\ Call("set_active_chunk_run", set_active_chunk_run(conn, kb, r))
        /\ UNCHANGED <<now, batch, indexer, threads, index_batch>>

DeleteChunkRun ==
    \E r \in ChunkRunArgs :
        /\ Call("delete_chunk_run", delete_chunk_run(conn, r))
        /\ UNCHANGED <<now, batch, indexer, threads, index_batch>>

DesyncChunkRuns ==
    \E kb \in KbArgs, ids \in SUBSET ChunkRunArgs :
        /\ Call("desync_chunk_runs", desync_chunk_runs(conn, SqlInteger(kb), ids))
        /\ UNCHANGED <<now, batch, indexer, threads, index_batch>>

\* _chunk_single_file for one document of the chunk run's knowledge base: the
\* file row carries the parse run of its active parsed record, and chunk_id is
\* unique per document and ordinal.  One chunk per call.
ChunkSingleFile ==
    \E p \in db.parsed, cr \in db.chunk_run :
        /\ db.seq.chunks < MaxChunks
        /\ p.is_active = 1
        /\ \E f \in db.files : /\ f.file_id = p.file_id
                                /\ f.type = "file"
                                /\ f.knowledgebase_id = cr.knowledgebase_id
        /\ LET ch == [chunk_id |-> <<p.file_id, db.seq.chunks + 1>>, file_id |-> p.file_id,
                      parse_run_id |-> p.parse_run_id, chunk_run_id |-> cr.id]
           IN  Call("add_chunks", add_chunks(conn, <<ch>>))
        /\ UNCHANGED <<now, batch, indexer, threads, index_batch>>

\* parse_files up to its first await: the run is created and one task per
\* document of the batch is scheduled.
ParseFilesStart ==
    \E filepath \in PathArgs :
        /\ batch.state # "running"
        /\ batch.pending = {} /\ batch.parsing = {}
        /\ db.seq.parse_run < MaxParseRun
        /\ LET file == get_file_by_path(db, filepath)
           IN  IF file = {}
               THEN /\ last' = [op |-> "parse_files", raised |-> FALSE, ret |-> "not found"]
                    /\ UNCHANGED <<conn, batch, indexer, threads, index_batch>>
               ELSE LET file_dict == CHOOSE f \in file : TRUE
                        r == create_parse_run(conn, file_dict.file_id, now)
                        file_ids == IF file_dict.type = "folder"
                                    THEN get_files_by_path_prefix(db, filepath)
                                    ELSE {file_dict.file_id}
                    IN  /\ Call("create_parse_run", r)
                        /\ batch' = IF r.raised THEN batch
                                    ELSE [state |-> "running",
                                          knowledgebase_id |-> SqlInteger(file_dict.knowledgebase_id),
                                          parse_run_id |-> r.ret[1], parse_run_time |-> r.ret[2],
                                          file_ids |-> file_ids,
                                          pending |-> file_ids, parsing |-> {},
                                          finished |-> <<>>,
                                          completed |-> <<>>, yielded |-> <<>>]
        /\ UNCHANGED <<now, indexer, threads, index_batch>>

\* A task runs to its first suspension.  Tasks keep running on the event loop
\* after the consumer has dropped the generator.
ParseSingleFileStart ==
    \E file_id \in batch.pending :
        /\ batch.state \in {"running", "abandoned"}
        /\ LET r == parse_single_file_start(conn, batch, file_id)
           IN  /\ conn' = r.conn
               /\ last' = [op |-> "_parse_single_file", raised |-> FALSE,
                           ret |-> IF r.done THEN r.result
                                   ELSE ParseResult(file_id, "parsing", FALSE, "")]
               /\ batch' = [batch EXCEPT
                               !.pending = @ \ {file_id},
                               !.parsing = IF r.done THEN @ ELSE @ \cup {file_id},
                               !.finished = IF r.done THEN Append(@, file_id) ELSE @,
                               !.completed = IF r.done THEN Append(@, r.result) ELSE @]
        /\ UNCHANGED <<now, indexer, threads, index_batch>>

\* ParseSingleFileFinish whose failing task also deactivates the parsed
\* records of its document.
ParseSingleFileFinish_clearing_failed ==
    \E file_id \in batch.parsing, success \in BOOLEAN :
        /\ batch.state \in {"running", "abandoned"}
        /\ LET r == parse_single_file_finish(conn, batch, file_id, success)
               cleared == [r.conn.db EXCEPT !.parsed =
                              {IF p.file_id = file_id THEN [p EXCEPT !.is_active = 0] ELSE p
                               : p \in @}]
           IN  /\ conn' = IF success THEN r.conn ELSE Commit(Dml(r.conn, cleared))
               /\ last' = [op |-> "_parse_single_file", raised |-> FALSE, ret |-> r.result]
               /\ batch' = [batch EXCEPT !.parsing = @ \ {file_id},
                                         !.finished = Append(@, file_id),
                                         !.completed = Append(@, r.result)]
        /\ UNCHANGED <<now, indexer, threads, index_batch>>

\* The parser thread hands back parse_result and the task finishes.
ParseSingleFileFinish ==
    \E file_id \in batch.parsing, success \in BOOLEAN :
        /\ batch.state \in {"running", "abandoned"}
        /\ LET r == parse_single_file_finish(conn, batch, file_id, success)
           IN  /\ conn' = r.conn
               /\ last' = [op |-> "_parse_single_file", raised |-> FALSE, ret |-> r.result]
               /\ batch' = [batch EXCEPT !.parsing = @ \ {file_id},
                                         !.finished = Append(@, file_id),
                                         !.completed = Append(@, r.result)]
        /\ UNCHANGED <<now, indexer, threads, index_batch>>

\* A loop that awaits the tasks one by one in the order they were created:
\* the consumer receives the result of the first document not yet yielded.
YieldResultInSubmissionOrder ==
    /\ batch.state = "running"
    /\ \E i \in 1..Len(batch.completed) :
           /\ \A f \in batch.file_ids :
                  f < batch.completed[i].file_id =>
                      \E k \in 1..Len(batch.yielded) : batch.yielded[k].file_id = f
           /\ batch' = [batch EXCEPT
                           !.completed = SubSeq(@, 1, i - 1) \o SubSeq(@, i + 1, Len(@)),
                           !.yielded = Append(@, batch.completed[i])]
    /\ UNCHANGED <<conn, last, now, indexer, threads, index_batch>>

\* yield result: the consumer receives the next completed result.
YieldResult ==
    /\ batch.state = "running"
    /\ batch.completed # <<>>
    /\ batch' = [batch EXCEPT !.completed = Tail(@), !.yielded = Append(@, Head(batch.completed))]
    /\ UNCHANGED <<conn, last, now, indexer, threads, index_batch>>

\* The consumer asks for the next item after the last result: the loop ends
\* and the chunk runs of the batch's knowledge base are desynced.
ParseFilesFinish ==
    /\ batch.state = "running"
    /\ batch.pending = {} /\ batch.parsing = {} /\ batch.completed = <<>>
    /\ Call("desync_chunk_runs", desync_chunk_runs(conn, batch.knowledgebase_id, {}))
    /\ batch' = [batch EXCEPT !.state = "done"]
    /\ UNCHANGED <<now, indexer, threads, index_batch>>

\* The consumer stops iterating while the generator is suspended at a yield:
\* the code after the loop never runs.
Abandon ==
    /\ batch.state = "running"
    /\ batch.yielded # <<>>
    /\ batch' = [batch EXCEPT !.state = "abandoned", !.completed = <<>>]
    /\ UNCHANGED <<conn, last, now, indexer, threads, index_batch>>

CreateIndexRun ==
    \E cr \in ChunkRunArgs, e \in EmbArgs :
        /\ db.seq.index_run < MaxIndexRun
        /\ Call("create_index_run", create_index_run(conn, cr, e))
        /\ UNCHANGED <<now, batch, indexer, threads, index_batch>>

DeleteIndexRun ==
    \E id \in IndexRunArgs :
        /\ Call("delete_index_run", delete_index_run(conn, id))
        /\ UNCHANGED <<now, batch, indexer, threads, index_batch>>

UpdateEmbeddingConfiguration ==
    \E e \in EmbArgs :
        /\ Call("update_embedding_configuration", update_embedding_configuration(conn, e))
        /\ UNCHANGED <<now, batch, indexer, threads, index_batch>>

SetActiveEmbeddingConfiguration ==
    \E e \in EmbArgs :
        /\ Call("set_active_embedding_configuration", set_active_embedding_configuration(conn, e))
        /\ UNCHANGED <<now, batch, indexer, threads, index_batch>>

DeleteEmbeddingConfiguration ==
    \E e \in EmbArgs :
        /\ Call("delete_embedding_configuration", delete_embedding_configuration(conn, e))
        /\ UNCHANGED <<now, batch, indexer, threads, index_batch>>

\* ------------------------------------------------- calls of the adapter
\* One caller at a time: the call runs from entry to return.
IndexChunks ==
    \E chunks \in ChunkMaps, save \in BOOLEAN :
        LET r == index_chunks(indexer, chunks, save)
        IN  /\ indexer' = r.ix
            /\ last' = [op |-> "index_chunks", raised |-> r.raised,
                        ret |-> [file_ids |-> DOMAIN chunks,
                                 deleted |-> Cardinality(existing_chunks_ids(indexer, DOMAIN chunks))]]
            /\ UNCHANGED <<conn, now, batch, threads, index_batch>>

DeleteFileChunks ==
    \E file_ids \in SUBSET DocArgs, save \in BOOLEAN :
        LET r == delete_file_chunks_call(indexer, <<file_ids>>, save)
        IN  /\ indexer' = r.ix
            /\ last' = [op |-> "delete_file_chunks", raised |-> r.raised, ret |-> TRUE]
            /\ UNCHANGED <<conn, now, batch, threads, index_batch>>

SaveIndex ==
    /\ indexer' = save_index(indexer).ix
    /\ last' = [op |-> "save_index", raised |-> FALSE, ret |-> TRUE]
    /\ UNCHANGED <<conn, now, batch, threads, index_batch>>

NextParse ==
    \/ Tick
    \/ CreateParseRun
    \/ AddParsedContent
    \/ SetActiveParseRun
    \/ DeleteParseRun

SpecParse == Init /\ [][NextParse]_vars

\* Parsed records being added and activated, none deleted.
NextAdd ==
    \/ CreateParseRun
    \/ AddParsedContent
    \/ SetActiveParseRun

SpecAdd == Init /\ [][NextAdd]_vars

\* Deleting parse runs under chunk runs built from them, on a smaller registry.
WithinCascade ==
    /\ db.seq.parsed <= MaxCascadeParsed
    /\ db.seq.chunk_run <= MaxCascadeChunkRun

NextCascade ==
    \/ CreateParseRun /\ WithinCascade'
    \/ AddParsedContent /\ WithinCascade'
    \/ DeleteParseRun /\ WithinCascade'
    \/ SaveChunkRunConfig /\ WithinCascade'
    \/ ChunkSingleFile /\ WithinCascade'

SpecCascade == Init /\ [][NextCascade]_vars

\* The set-active-parse-run endpoint over documents with chunk runs.
NextApi ==
    \/ CreateParseRun
    \/ AddParsedContent
    \/ ApiSetActiveParseRun
    \/ SaveChunkRunConfig

SpecApi == Init /\ [][NextApi]_vars

NextChunk ==
    \/ SaveChunkRunConfig
    \/ SaveChunkRunConfigUnbound
    \/ SetActiveChunkRun
    \/ DeleteChunkRun
    \/ DesyncChunkRuns

SpecChunk == Init /\ [][NextChunk]_vars

NextIndex ==
    \/ SaveChunkRunConfig
    \/ UpdateEmbeddingConfiguration
    \/ SetActiveEmbeddingConfiguration
    \/ DeleteEmbeddingConfiguration
    \/ CreateIndexRun
    \/ DeleteIndexRun

SpecIndex == Init /\ [][NextIndex]_vars

\* A parse batch and its consumer, over knowledge bases that have chunk runs.
NextBatch ==
    \/ SaveChunkRunConfig
    \/ ParseFilesStart
    \/ ParseSingleFileStart
    \/ ParseSingleFileFinish
    \/ YieldResult
    \/ ParseFilesFinish
    \/ Abandon

SpecBatch == Init /\ [][NextBatch]_vars

\* A parse batch and its consumer alone.
NextBatchOnly ==
    \/ ParseFilesStart
    \/ ParseSingleFileStart
    \/ ParseSingleFileFinish
    \/ YieldResult
    \/ ParseFilesFinish
    \/ Abandon

SpecBatchOnly == Init /\ [][NextBatchOnly]_vars

\* A parse batch while parse runs are deleted through the API.
NextBatchDelete ==
    \/ ParseFilesStart
    \/ ParseSingleFileStart
    \/ ParseSingleFileFinish
    \/ YieldResult
    \/ ParseFilesFinish
    \/ Abandon
    \/ DeleteParseRun

SpecBatchDelete == Init /\ [][NextBatchDelete]_vars


\* _process_single_file, line 144: index_chunks({file_id: documents}) for one
\* document, run to its return.
IndexSingleFile ==
    \E chunks \in WorkerChunkMaps :
        LET r == index_chunks(indexer, chunks, FALSE)
        IN  /\ indexer' = r.ix
            /\ last' = [op |-> "index_chunks", raised |-> r.raised,
                        ret |-> [file_ids |-> DOMAIN chunks,
                                 deleted |-> Cardinality(existing_chunks_ids(indexer, DOMAIN chunks))]]
            /\ UNCHANGED <<conn, now, batch, threads, index_batch>>

\* The index run endpoint, on the adapter of the run it names.
ApiDeleteIndexRun ==
    \E index_run_id \in IndexRunArgs :
        LET r == api_delete_index_run(conn, indexer, index_run_id)
        IN  /\ conn' = r.conn
            /\ indexer' = r.ix
            /\ last' = [op |-> "api_delete_index_run", raised |-> r.raised,
                        ret |-> get_index_run_by_id(db, index_run_id) # {}]
            /\ UNCHANGED <<now, batch, threads, index_batch>>

\* --------------------------------------------------------- indexing batches
\* POST /api/index-files: index_all_chunks up to its first suspension.
IndexAllChunksStart ==
    \E chunk_run_id \in ChunkRunArgs, embedding_config_id \in EmbArgs :
        /\ index_batch.state # "running"
        /\ db.seq.index_run < MaxIndexRun
        /\ LET r == index_all_chunks_start(conn, indexer, chunk_run_id, embedding_config_id)
           IN  /\ conn' = r.conn
               /\ indexer' = r.ix
               /\ index_batch' = r.batch
               /\ last' = [op |-> "index_all_chunks", raised |-> r.batch.state = "raised",
                           ret |-> r.batch.started]
        /\ UNCHANGED <<now, batch, threads>>

ProcessFilesStart ==
    \E files \in 0..MaxFiles :
        /\ index_batch.state # "running"
        /\ index_batch' = process_files_start(files)
        /\ last' = [op |-> "process_files", raised |-> index_batch'.state = "raised",
                    ret |-> TRUE]
        /\ UNCHANGED <<conn, now, batch, indexer, threads>>

\* yield: the consumer receives the next record.
YieldIndexResult ==
    /\ index_batch.state = "running"
    /\ index_batch.completed # <<>>
    /\ index_batch' = [index_batch EXCEPT !.completed = Tail(@),
                                          !.yielded = Append(@, Head(index_batch.completed))]
    /\ UNCHANGED <<conn, last, now, batch, indexer, threads>>

\* The consumer asks for the next record after the last one: a batch that was
\* not accepted returns, an accepted one calls save_index after its loop.
IndexBatchFinish ==
    /\ index_batch.state = "running"
    /\ index_batch.completed = <<>>
    /\ index_batch' = [index_batch EXCEPT !.state = "done",
                                          !.saves = IF index_batch.started THEN @ + 1 ELSE @]
    /\ indexer' = IF index_batch.started THEN save_index(indexer).ix ELSE indexer
    /\ UNCHANGED <<conn, last, now, batch, threads>>

\* ------------------------------------------- callers of the adapter, stepwise
\* Several callers on one Indexer: worker threads of asyncio.to_thread and
\* the event loop.
CallIndexChunks ==
    \E t \in Threads, chunks \in WorkerChunkMaps, save \in BOOLEAN :
        /\ threads[t].pc = "idle"
        /\ threads' = [threads EXCEPT ![t] =
               [IdleThread EXCEPT !.op = "index_chunks", !.pc = "lock1", !.save = save,
                                  !.file_ids = DOMAIN chunks,
                                  !.chunks = UNION {chunks[k] : k \in DOMAIN chunks}]]
        /\ UNCHANGED <<conn, last, now, batch, indexer, index_batch>>

CallDeleteFileChunks ==
    \E t \in Threads, file_ids \in (SUBSET DocArgs) \ {{}}, save \in BOOLEAN :
        /\ threads[t].pc = "idle"
        /\ threads' = [threads EXCEPT ![t] =
               [IdleThread EXCEPT !.op = "delete_file_chunks", !.pc = "read", !.save = save,
                                  !.file_ids = file_ids]]
        /\ UNCHANGED <<conn, last, now, batch, indexer, index_batch>>

CallSaveIndex ==
    \E t \in Threads :
        /\ threads[t].pc = "idle"
        /\ threads' = [threads EXCEPT ![t] =
               [IdleThread EXCEPT !.op = "save_index", !.pc = "lock1"]]
        /\ UNCHANGED <<conn, last, now, batch, indexer, index_batch>>

\* with self._lock: the caller waits until the lock is free.
AcquireLock ==
    \E t \in Threads :
        /\ threads[t].pc \in {"lock1", "lock2"}
        /\ indexer.lock = "none"
        /\ indexer' = [indexer EXCEPT !.lock = t]
        /\ threads' = [threads EXCEPT ![t].pc = AfterLock(threads[t])]
        /\ UNCHANGED <<conn, last, now, batch, index_batch>>

\* delete_file_chunks, lines 70-72: nothing to delete returns at once.
ReadExistingChunks ==
    \E t \in Threads :
        /\ threads[t].pc = "read"
        /\ LET ids == existing_chunks_ids(indexer, threads[t].file_ids)
               th == [threads[t] EXCEPT !.ids = ids]
               g == IF ids # {} THEN Goes(indexer, th, t, "vectorstore.delete")
                    ELSE IF th.op = "index_chunks" THEN Goes(indexer, th, t, "embed")
                    ELSE Goes(indexer, th, t, "idle")
           IN  /\ indexer' = g.ix
               /\ threads' = [threads EXCEPT ![t] = g.th]
               /\ last' = IF g.th.pc = "idle"
                          THEN [op |-> th.op, raised |-> FALSE, ret |-> TRUE] ELSE last
        /\ UNCHANGED <<conn, now, batch, index_batch>>

\* index_chunks, lines 45-51: no chunks to add returns, else the embeddings
\* are computed outside the lock; embed_documents may raise (the embedding
\* service is a network call).
Embed ==
    \E t \in Threads, ok \in BOOLEAN :
        /\ threads[t].pc = "embed"
        /\ threads[t].chunks = {} => ok
        /\ threads' = [threads EXCEPT ![t] =
               IF threads[t].chunks = {} \/ ~ok THEN IdleThread ELSE [@ EXCEPT !.pc = "lock2"]]
        /\ last' = IF threads[t].chunks = {} \/ ~ok
                   THEN [op |-> "index_chunks", raised |-> ~ok, ret |-> TRUE] ELSE last
        /\ UNCHANGED <<conn, now, batch, indexer, index_batch>>

\* The caller starts a statement that changes the index structures.
EnterMutation ==
    \E t \in Threads, step \in MutatingSteps :
        /\ threads[t].pc = step /\ ~threads[t].inside
        /\ threads' = [threads EXCEPT ![t].inside = TRUE]
        /\ UNCHANGED <<conn, last, now, batch, indexer, index_batch>>

\* The statement ends: its change is made, or it raises and the exception
\* leaves the entry point, through the `with` block if there is one.
LeaveMutation ==
    \E t \in Threads, step \in MutatingSteps :
        /\ threads[t].pc = step /\ threads[t].inside
        /\ LET r == StepEffect(indexer, threads[t], step)
               g == Goes(r.ix, threads[t], t,
                         IF r.raised THEN "idle" ELSE AfterStep(threads[t], step))
           IN  /\ indexer' = g.ix
               /\ threads' = [threads EXCEPT ![t] = g.th]
               /\ last' = IF g.th.pc = "idle"
                          THEN [op |-> threads[t].op, raised |-> r.raised, ret |-> TRUE]
                          ELSE last
        /\ UNCHANGED <<conn, now, batch, index_batch>>

\* One caller using the adapter.
\* The documents of a result list.
Docs(results) == [i \in DOMAIN results |-> results[i].doc]

RetrieveVector ==
    \E k \in KArgs, hits \in Hits(indexer) :
        LET r == vector_retrieve(indexer, hits, k)
        IN  /\ last' = [op |-> "vector", raised |-> r.raised,
                        ret |-> [k |-> k, vector |-> Docs(hits), bm25 |-> <<>>, results |-> r.ret]]
            /\ UNCHANGED <<conn, now, batch, indexer, threads, index_batch>>

RetrieveBM25 ==
    \E k \in KArgs, scores \in ScoreMaps(indexer) :
        \E top \in TopRankings(indexer, scores) :
            LET r == bm25_retrieve(indexer, top, k)
            IN  /\ last' = [op |-> "bm25", raised |-> r.raised,
                            ret |-> [k |-> k, vector |-> <<>>, bm25 |-> top, results |-> r.ret]]
                /\ UNCHANGED <<conn, now, batch, indexer, threads, index_batch>>

\* FusionRetriever.retrieve reads the order of the two lists only, and every
\* order of all_docs is the BM25 order for some query.
RetrieveFusion ==
    \E k \in KArgs, hits \in Hits(indexer), top \in Rankings(indexer.all_docs) :
        LET r == fusion_retrieve(indexer, hits, top, k)
        IN  /\ last' = [op |-> "fusion", raised |-> r.raised,
                        ret |-> [k |-> k, vector |-> Docs(hits), bm25 |-> top, results |-> r.ret]]
            /\ UNCHANGED <<conn, now, batch, indexer, threads, index_batch>>

\* The rows of parse_run, parsed and chunks that reference a document.
Referencing(d, file_id) ==
    [parse_run |-> Cardinality({r \in d.parse_run : r.file_id = file_id}),
     parsed |-> Cardinality({r \in d.parsed : r.file_id = file_id}),
     chunks |-> Cardinality({r \in d.chunks : r.file_id = file_id})]

CreateKnowledgebase ==
    \E name \in KbNameArgs, root_path \in RootPathArgs :
        /\ db.seq.knowledgebase < MaxKnowledgebaseId
        /\ Call("create_knowledgebase", create_knowledgebase(conn, name, root_path, now))
        /\ UNCHANGED <<now, batch, indexer, threads, index_batch>>

\* last keeps, next to what the call returned, the document and the rows
\* that referenced it before the call.
DeleteFile ==
    \E file_id \in FileArgs :
        LET r == delete_file(conn, file_id)
        IN  /\ conn' = r.conn
            /\ last' = [op |-> "delete_file", raised |-> r.raised,
                        ret |-> [ret |-> r.ret, file_id |-> file_id,
                                 referencing |-> Referencing(db, file_id)]]
            /\ UNCHANGED <<now, batch, indexer, threads, index_batch>>

DeleteFileByPath ==
    \E filepath \in PathArgs :
        LET r == delete_file_by_path(conn, filepath)
            file_info == get_file_by_path(db, filepath)
        IN  /\ conn' = r.conn
            /\ last' = [op |-> "delete_file_by_path", raised |-> r.raised,
                        ret |-> [ret |-> r.ret, file_id |-> r.ret,
                                 referencing |-> IF file_info = {} THEN Referencing(db, 0)
                                                 ELSE Referencing(db, r.ret)]]
            /\ UNCHANGED <<now, batch, indexer, threads, index_batch>>

SetActiveKnowledgebase ==
    \E knowledgebase_id \in 1..MaxKnowledgebaseId :
        /\ Call("set_active_knowledgebase", set_active_knowledgebase(conn, knowledgebase_id))
        /\ UNCHANGED <<now, batch, indexer, threads, index_batch>>

\* latest: which of the remaining rows the ORDER BY puts first, 0 when no
\* row remains.
DeleteKnowledgebase ==
    \E knowledgebase_id \in 1..MaxKnowledgebaseId :
    \E latest \in IF KbIds(db) \ {knowledgebase_id} = {} THEN {0}
                  ELSE KbIds(db) \ {knowledgebase_id} :
        /\ Call("delete_knowledgebase", delete_knowledgebase(conn, knowledgebase_id, latest))
        /\ UNCHANGED <<now, batch, indexer, threads, index_batch>>

\* The chunk runs that have a chunk.
RunsWithChunks(d) == {ch.chunk_run_id : ch \in d.chunks}

\* last keeps, next to the row count, the chunk runs that had a chunk before
\* the call and have none after it, and those that lost a chunk and keep one.
DeleteChunksByFileId ==
    \E file_id \in FileIds(db) \cup FileArgs :
        LET r == delete_chunks_by_file_id(conn, file_id)
            lost == {ch.chunk_run_id : ch \in {x \in db.chunks : x.file_id = file_id}}
        IN  /\ conn' = r.conn
            /\ last' = [op |-> "delete_chunks_by_file_id", raised |-> r.raised,
                        ret |-> [ret |-> r.ret,
                                 emptied |-> lost \ RunsWithChunks(r.conn.db),
                                 kept |-> lost \cap RunsWithChunks(r.conn.db)]]
            /\ UNCHANGED <<now, batch, indexer, threads, index_batch>>

NextAdapter ==
    \/ IndexChunks
    \/ DeleteFileChunks
    \/ SaveIndex

SpecAdapter == Init /\ [][NextAdapter]_vars

\* Callers of one adapter running side by side.
NextThreads ==
    \/ CallIndexChunks
    \/ CallDeleteFileChunks
    \/ CallSaveIndex
    \/ AcquireLock
    \/ ReadExistingChunks
    \/ Embed
    \/ EnterMutation
    \/ LeaveMutation

SpecThreads == Init /\ [][NextThreads]_vars

\* Indexing batches over chunk runs with and without chunks, on a small
\* registry.
WithinIndexBatch ==
    /\ db.seq.parse_run <= MaxBatchRows
    /\ db.seq.parsed <= MaxBatchRows
    /\ db.seq.chunk_run <= MaxBatchRows + 1
    /\ db.seq.chunks <= MaxBatchRows

NextIndexBatch ==
    \/ CreateParseRun /\ WithinIndexBatch'
    \/ AddParsedContent /\ WithinIndexBatch'
    \/ SaveChunkRunConfig /\ WithinIndexBatch'
    \/ ChunkSingleFile /\ WithinIndexBatch'
    \/ UpdateEmbeddingConfiguration
    \/ IndexAllChunksStart
    \/ ProcessFilesStart
    \/ YieldIndexResult
    \/ IndexBatchFinish

SpecIndexBatch == Init /\ [][NextIndexBatch]_vars

\* Index runs with vectors in their adapter, created and deleted through the
\* API.
NextIndexApi ==
    \/ SaveChunkRunConfig
    \/ UpdateEmbeddingConfiguration
    \/ CreateIndexRun
    \/ IndexSingleFile
    \/ ApiDeleteIndexRun

SpecIndexApi == Init /\ [][NextIndexApi]_vars

\* Queries against an adapter that one caller at a time fills and empties.
WithinRetrieval ==
    /\ Cardinality(indexer.all_docs) <= MaxRetrievalChunks
    /\ \A c \in indexer.all_docs : c.version = 1

NextRetrieve ==
    \/ IndexChunks /\ WithinRetrieval'
    \/ DeleteFileChunks
    \/ RetrieveVector
    \/ RetrieveBM25
    \/ RetrieveFusion

SpecRetrieve == Init /\ [][NextRetrieve]_vars

\* Knowledgebases created and documents deleted, on a small registry of
\* parse runs and chunks.
NextFiles ==
    \/ CreateParseRun /\ WithinIndexBatch'
    \/ AddParsedContent /\ WithinIndexBatch'
    \/ SaveChunkRunConfig /\ WithinIndexBatch'
    \/ ChunkSingleFile /\ WithinIndexBatch'
    \/ CreateKnowledgebase
    \/ DeleteFile
    \/ DeleteFileByPath

SpecFiles == Init /\ [][NextFiles]_vars

\* The knowledge base registry alone.
NextKnowledgebase ==
    \/ CreateKnowledgebase
    \/ SetActiveKnowledgebase
    \/ DeleteKnowledgebase

SpecKnowledgebase == Init /\ [][NextKnowledgebase]_vars

\* Chunks of the documents of a parse batch, deleted by document.
WithinChunkDelete ==
    /\ db.seq.parse_run <= MaxBatchRows
    /\ db.seq.chunk_run <= MaxBatchRows + 1

NextChunkDelete ==
    \/ ParseFilesStart /\ WithinChunkDelete'
    \/ ParseSingleFileStart
    \/ ParseSingleFileFinish
    \/ YieldResult
    \/ ParseFilesFinish
    \/ SaveChunkRunConfig /\ WithinChunkDelete'
    \/ ChunkSingleFile
    \/ DeleteChunksByFileId
    \/ DeleteFile

SpecChunkDelete == Init /\ [][NextChunkDelete]_vars

\* The chunk run registry next to the operations on parse runs and parse
\* batches, on a small registry.
WithinSync ==
    /\ db.seq.parse_run <= MaxBatchRows
    /\ db.seq.parsed <= MaxBatchRows
    /\ db.seq.chunk_run <= MaxBatchRows + 1

\* A parse batch reads and writes chunk_run only in its last step, so the
\* operations of the chunk run registry are interleaved with whole batches.
BetweenBatches == batch.state # "running"

NextSync ==
    \/ SaveChunkRunConfig /\ WithinSync' /\ BetweenBatches'
    \/ SetActiveChunkRun /\ BetweenBatches'
    \/ DeleteChunkRun /\ BetweenBatches'
    \/ DesyncChunkRuns /\ BetweenBatches'
    \/ DeleteParseRun /\ BetweenBatches'
    \/ ParseFilesStart /\ WithinSync'
    \/ ParseSingleFileStart
    \/ ParseSingleFileFinish /\ WithinSync'
    \/ YieldResult
    \/ ParseFilesFinish

SpecSync == Init /\ [][NextSync]_vars

\* ----------------------------------------------------------------- claims
ActiveParsed(d, file_id) == {r \in d.parsed : r.file_id = file_id /\ r.is_active = 1}
ActiveChunkRuns(d, knowledgebase_id) ==
    {r.id : r \in {x \in d.chunk_run : x.knowledgebase_id = knowledgebase_id /\ x.is_active = 1}}
ChunkRunsOf(d, knowledgebase_id) ==
    {r.id : r \in {x \in d.chunk_run : x.knowledgebase_id = knowledgebase_id}}

\* C1: in every state reachable by add_parsed_content, set_active_parse_run
\* and delete_parse_run calls, each document has at most one parsed record
\* with is_active = 1.
C1_OneActiveParsedPerDocument ==
    \A f \in FileIds(db) : Cardinality(ActiveParsed(db, f)) <= 1

\* C2: in every state reachable by save_chunk_run_config, set_active_chunk_run
\* (any knowledgebase id / chunk run id pair) and delete_chunk_run calls, each
\* knowledgebase has at most one chunk run with is_active = 1.
C2_OneActiveChunkRunPerKnowledgebase ==
    \A kb \in KbIds(db) : Cardinality(ActiveChunkRuns(db, kb)) <= 1

\* C3: a delete_parse_run call that returns (for a file or a folder) keeps
\* every chunk run and every chunk; the only change to a chunk run is in_sync
\* going to 0.
C3_DeleteParseRunKeepsChunkRuns ==
    [][(last'.op = "delete_parse_run" /\ ~last'.raised) =>
         /\ conn'.db.chunks = conn.db.chunks
         /\ ChunkRunIds(conn'.db) = ChunkRunIds(conn.db)
         /\ \A r \in conn.db.chunk_run :
               \E q \in conn'.db.chunk_run :
                  /\ q.id = r.id
                  /\ q.knowledgebase_id = r.knowledgebase_id
                  /\ q.is_active = r.is_active
                  /\ q.in_sync \in {r.in_sync, 0}]_vars

\* C4: whenever the set-active-parse-run request for a document succeeds
\* (set_active_parse_run returned true), every chunk run of that document's
\* knowledgebase has in_sync = 0 afterwards.
C4_SetActiveDesyncsKnowledgebase ==
    \A f \in FileArgs, r \in ParseRunArgs :
        LET res == api_set_active_parse_run(conn, f, r)
        IN  (~res.raised /\ res.ret = TRUE) =>
               \A file \in res.conn.db.files : file.file_id = f =>
                  \A q \in res.conn.db.chunk_run :
                     q.knowledgebase_id = file.knowledgebase_id => q.in_sync = 0

\* C5: during a parse batch, the step in which add_parsed_content stores a
\* document's new active parsed record leaves no chunk run of the batch's
\* knowledgebase with in_sync = 1.
C5_CascadeWithTheWrite ==
    [][(batch.state \in {"running", "abandoned"}
        /\ conn'.db.seq.parsed > conn.db.seq.parsed) =>
         \A q \in conn'.db.chunk_run :
            SqlEqInt(q.knowledgebase_id, batch.knowledgebase_id) => q.in_sync = 0]_vars


SamePair(d, chunk_run_id, embedding_configure_id) ==
    {r \in d.index_run : /\ r.chunk_run_id = chunk_run_id
                          /\ r.embedding_configure_id = embedding_configure_id}

\* C6: create_index_run called twice with the same pair of an existing chunk
\* run and embedding configuration returns (true, "") and then (false, reason)
\* with a non-empty reason, raises neither time and leaves exactly one index
\* run with that pair; and in every reachable state no two index runs share a
\* pair.
C6_SecondCreateIndexRunConflicts ==
    /\ \A r1 \in db.index_run, r2 \in db.index_run :
          (r1.chunk_run_id = r2.chunk_run_id
           /\ r1.embedding_configure_id = r2.embedding_configure_id) => r1.id = r2.id
    /\ \A cr \in ChunkRunIds(db), e \in EmbIds(db) :
          SamePair(db, cr, e) = {} =>
             LET first == create_index_run(conn, cr, e)
                 second == create_index_run(first.conn, cr, e)
             IN  /\ ~first.raised /\ first.ret = <<TRUE, "">>
                 /\ ~second.raised /\ second.ret[1] = FALSE /\ second.ret[2] # ""
                 /\ Cardinality(SamePair(second.conn.db, cr, e)) = 1

\* C6 witness: a second create_index_run for a bound pair has returned its
\* conflict and the pair's one index run is on record.
C6_ConflictReturned ==
    /\ last.op = "create_index_run"
    /\ last.ret = <<FALSE, "Index run already exists">>
    /\ \E r \in db.index_run : Cardinality(SamePair(db, r.chunk_run_id, r.embedding_configure_id)) = 1

\* C7: in every state reachable by update_embedding_configuration,
\* set_active_embedding_configuration and delete_embedding_configuration
\* calls, at most one embedding configuration has is_active = 1.
C7_OneActiveEmbeddingConfiguration ==
    Cardinality({r \in db.embedding_configure : r.is_active = 1}) <= 1

\* C8: set_active_parse_run for a (document, run) pair without parsed content
\* returns false and leaves the is_active flag of every parsed record as it was.
C8_SetActiveWithoutContentIsNoOp ==
    \A f \in FileArgs, r \in ParseRunArgs :
        {x \in db.parsed : x.file_id = f /\ x.parse_run_id = r} = {} =>
           LET res == set_active_parse_run(conn, f, r)
           IN  /\ ~res.raised
               /\ res.ret = FALSE
               /\ res.conn.db.parsed = db.parsed

\* C9: delete_chunk_run on the active chunk run of a knowledgebase with other
\* chunk runs makes the most recently created remaining run of that
\* knowledgebase, and only it, active; deleting the knowledgebase's last chunk
\* run leaves it with no active chunk run.
C9_DeleteActivePromotesLatest ==
    \A run \in db.chunk_run :
        run.is_active = 1 =>
           LET res == delete_chunk_run(conn, run.id)
               others == ChunkRunsOf(db, run.knowledgebase_id) \ {run.id}
               active == ActiveChunkRuns(res.conn.db, run.knowledgebase_id)
           IN  /\ ~res.raised
               /\ run.id \notin ChunkRunIds(res.conn.db)
               /\ others # {} => active = {Max(others)}
               /\ others = {} => active = {}

\* C10: delete_chunk_run with an id that no chunk run has returns false,
\* raises no error and changes no state.
C10_DeleteMissingChunkRunReturnsFalse ==
    \A id \in ChunkRunArgs :
        id \notin ChunkRunIds(db) =>
           LET res == delete_chunk_run(conn, id)
           IN  /\ ~res.raised
               /\ res.ret = FALSE
               /\ res.conn.db = db


\* The documents a delete_parse_run call for filepath works on.
AffectedFiles(d, filepath) ==
    LET info == {f \in d.files : f.filepath = filepath}
    IN  IF \E f \in info : f.type = "file"
        THEN {f.file_id : f \in info}
        ELSE {f.file_id : f \in {x \in d.files : x.filepath = filepath
                                                \/ IsPrefix(filepath, x.filepath)}}

\* C11: delete_parse_run on the active parse run of a document that has other
\* parsed records leaves a most recent remaining record (by run time) of that
\* document active, in the file branch and for every file of the folder
\* branch; deleting a run that is not the document's active one leaves the
\* document's active records as they were.
C11_DeleteActivePromotesMostRecent ==
    \A filepath \in {f.filepath : f \in db.files}, r \in ParseRunArgs,
       prefer \in SUBSET {x.parse_id : x \in db.parsed} :
        LET res == delete_parse_run(conn, r, filepath, prefer)
        IN  \A doc \in AffectedFiles(db, filepath) :
               LET mine == {x \in db.parsed : x.file_id = doc}
                   rest == {x \in mine : x.parse_run_id # r}
                   after == ActiveParsed(res.conn.db, doc)
               IN  /\ ~res.raised
                   /\ (rest # {} /\ \E x \in mine \ rest : x.is_active = 1) =>
                         \E x \in after : \A o \in rest : o.time <= x.time
                   /\ (\A x \in mine \ rest : x.is_active = 0) =>
                         after = ActiveParsed(db, doc)

\* C12: a save_chunk_run_config call that raises leaves every chunk run as it
\* was: the knowledgebase's active chunk run is still active and no chunk run
\* was added.
C12_SaveChunkRunConfigAllOrNothing ==
    \A kb \in KbArgs, framework \in {SqlText("langchain"), PyDict("langchain")} :
        LET res == save_chunk_run_config(conn, kb, framework)
        IN  res.raised => res.conn.db.chunk_run = db.chunk_run

ChunksOf(S, file_id) == {c \in S : c.file_id = file_id}

\* C19: index_chunks(m) returns with, for every document key d of m, exactly
\* the chunks m[d] in the mirror all_docs and in the vectorstore, the chunks
\* of every other document as they were, and a second index_chunks(m) leaves
\* mirror and vectorstore as the first did.
C19_IndexChunksReplacesPerDocument ==
    \A chunks \in ChunkMaps, save \in BOOLEAN :
        LET r == index_chunks(indexer, chunks, save)
            again == index_chunks(r.ix, chunks, save)
        IN  /\ ~r.raised
            /\ \A d \in DOMAIN chunks :
                   /\ ChunksOf(r.ix.all_docs, d) = chunks[d]
                   /\ ChunksOf(r.ix.vectorstore, d) = chunks[d]
            /\ \A d \in DocArgs \ DOMAIN chunks :
                   /\ ChunksOf(r.ix.all_docs, d) = ChunksOf(indexer.all_docs, d)
                   /\ ChunksOf(r.ix.vectorstore, d) = ChunksOf(indexer.vectorstore, d)
            /\ ~again.raised
            /\ again.ix.all_docs = r.ix.all_docs
            /\ again.ix.vectorstore = r.ix.vectorstore

\* index_chunks({1: [..]}) has replaced the two chunks of document 1 by one
\* chunk and left the chunk of document 2.
C19_ReplacedOneDocument ==
    /\ last.op = "index_chunks" /\ ~last.raised
    /\ last.ret.file_ids = {1} /\ last.ret.deleted = 2
    /\ Cardinality(ChunksOf(indexer.all_docs, 1)) = 1
    /\ ChunksOf(indexer.all_docs, 2) # {}
    /\ indexer.vectorstore = indexer.all_docs

\* C20: on one adapter no two callers are inside a statement that changes the
\* index structures (vectorstore.delete, add_embeddings, the updates of
\* all_docs, save_local) at the same time, whichever entry points they
\* called.
C20_MutationsNeverOverlap ==
    \A t1, t2 \in Threads :
        (threads[t1].inside /\ threads[t2].inside) => t1 = t2

\* C16: an accepted indexing batch with input items that has ended for its
\* consumer has run its finalizer save_index exactly once.
C16_FinalizerOnceAfterDrain ==
    (/\ index_batch.state \in {"done", "raised"}
     /\ index_batch.started
     /\ index_batch.items > 0) => index_batch.saves = 1

\* C17: an accepted indexing batch with zero input items terminates without
\* an exception, has run save_index exactly once and has yielded no record.
C17_EmptyBatchFinalizesAndYieldsNothing ==
    (/\ index_batch.state \in {"done", "raised"}
     /\ index_batch.started
     /\ index_batch.items = 0) =>
        /\ index_batch.state = "done"
        /\ index_batch.saves = 1
        /\ index_batch.yielded = <<>>

ChunkIds(S) == {c.chunk_id : c \in S}

\* C21: whenever no call of the adapter is under way, the chunk ids of the
\* mirror all_docs are the ids stored in the vectorstore, and no chunk id
\* occurs twice in the mirror.
C21_MirrorMatchesIndex ==
    (\A t \in Threads : threads[t].pc = "idle") =>
        /\ ChunkIds(indexer.all_docs) = ChunkIds(indexer.vectorstore)
        /\ \A c1, c2 \in indexer.all_docs : c1.chunk_id = c2.chunk_id => c1 = c2

\* C22: index_chunks with zero chunks in total (an empty dict, or keys that
\* all map to empty lists) returns without raising and leaves the
\* vectorstore, the mirror all_docs and the saved snapshot as they were.
C22_ZeroChunksIsNoOp ==
    \A chunks \in {m \in ChunkMaps : \A d \in DOMAIN m : m[d] = {}}, save \in BOOLEAN :
        LET r == index_chunks(indexer, chunks, save)
        IN  /\ ~r.raised
            /\ r.ix.vectorstore = indexer.vectorstore
            /\ r.ix.all_docs = indexer.all_docs
            /\ r.ix.saved = indexer.saved

\* C23: the delete-index-run operation on an existing index run succeeds, and
\* afterwards the index run record is gone and the run's adapter holds no
\* vectors and an empty mirror.
C23_DeleteIndexRunPurgesVectors ==
    \A index_run_id \in {r.id : r \in db.index_run} :
        LET r == api_delete_index_run(conn, indexer, index_run_id)
        IN  /\ ~r.raised
            /\ get_index_run_by_id(r.conn.db, index_run_id) = {}
            /\ r.ix.vectorstore = {}
            /\ r.ix.all_docs = {}

HasIndexRun(d, chunk_run_id, embedding_config_id) ==
    \E r \in d.index_run : /\ r.chunk_run_id = chunk_run_id
                            /\ r.embedding_configure_id = embedding_config_id

\* C24: index_all_chunks for a chunk run and embedding configuration that
\* already have an index run hands out exactly one record, with status
\* "failed" and the reason, and leaves the vectorstore, the mirror, the saved
\* snapshot and the index_run table as they were; the batch that ends this
\* way has yielded that one record and has not called save_index.
C24_ExistingIndexRunIsRejected ==
    /\ \A chunk_run_id \in ChunkRunArgs, embedding_config_id \in EmbArgs :
           HasIndexRun(db, chunk_run_id, embedding_config_id) =>
               LET r == index_all_chunks_start(conn, indexer, chunk_run_id, embedding_config_id)
               IN  /\ r.batch.state = "running" /\ ~r.batch.started
                   /\ Len(r.batch.completed) = 1
                   /\ r.batch.completed[1].status = "failed"
                   /\ r.batch.completed[1].error = "Index run already exists"
                   /\ r.ix = indexer
                   /\ r.conn.db.index_run = db.index_run
                   /\ r.conn.disk.index_run = conn.disk.index_run
    /\ (index_batch.state = "done" /\ ~index_batch.started) =>
           /\ Len(index_batch.yielded) = 1
           /\ index_batch.yielded[1].status = "failed"
           /\ index_batch.saves = 0

\* A second index_all_chunks for the same pair has been drained.
C24_RejectedBatchDrained ==
    /\ index_batch.state = "done" /\ ~index_batch.started
    /\ index_batch.yielded = <<IndexResult("failed", "Index run already exists")>>
    /\ db.index_run # {}

\* The sum of 1/(rank + 60) over the 0-based positions rank, among the first
\* n, at which docs holds the chunk doc_id.
RECURSIVE ReciprocalRanks(_, _, _)
ReciprocalRanks(docs, doc_id, n) ==
    IF n = 0
    THEN Rat(0, 1)
    ELSE RatAdd(ReciprocalRanks(docs, doc_id, n - 1),
                IF docs[n].chunk_id = doc_id THEN Rat(1, (n - 1) + 60) ELSE Rat(0, 1))

\* C25: the score fusion retrieval gives a chunk is the sum, over the vector
\* list and the lexical list it drew, of 1/(rank + 60) at the chunk's 0-based
\* position in the list, a list without the chunk adding nothing; for the
\* vector list [X, Y] and the lexical list [Y, X] with k = 2 both chunks are
\* returned with equal scores.
C25_FusedScoreIsReciprocalRankSum ==
    \A k \in KArgs, hits \in Hits(indexer), top \in Rankings(indexer.all_docs) :
        LET r == fusion_retrieve(indexer, hits, top, k)
            vector == Docs(vector_retrieve(indexer, hits, k * 2).ret)
            lexical == Docs(bm25_retrieve(indexer, top, k * 2).ret)
        IN  ~r.raised =>
                /\ \A i \in DOMAIN r.ret :
                       RatEq(r.ret[i].score,
                             RatAdd(ReciprocalRanks(vector, r.ret[i].doc.chunk_id, Len(vector)),
                                    ReciprocalRanks(lexical, r.ret[i].doc.chunk_id, Len(lexical))))
                /\ (k = 2 /\ Len(vector) = 2 /\ lexical = <<vector[2], vector[1]>>) =>
                       /\ Len(r.ret) = 2
                       /\ {r.ret[1].doc, r.ret[2].doc} = {vector[1], vector[2]}
                       /\ RatEq(r.ret[1].score, r.ret[2].score)

\* A fusion query with k = 2 has drawn [X, Y] from the store and [Y, X] from
\* BM25 and returned X and Y with one score.
C25_OppositeOrdersScoreEqual ==
    /\ last.op = "fusion" /\ ~last.raised
    /\ last.ret.k = 2
    /\ Len(last.ret.vector) = 2
    /\ last.ret.vector[1] # last.ret.vector[2]
    /\ last.ret.bm25 = <<last.ret.vector[2], last.ret.vector[1]>>
    /\ Len(last.ret.results) = 2
    /\ last.ret.results[1].doc = last.ret.vector[1]
    /\ RatEq(last.ret.results[1].score, Rat(121, 3660))
    /\ RatEq(last.ret.results[2].score, Rat(121, 3660))

\* The fused score of a chunk drawn into the lists vector and lexical.
FusedScore(vector, lexical, doc_id) ==
    RatAdd(ReciprocalRanks(vector, doc_id, Len(vector)),
           ReciprocalRanks(lexical, doc_id, Len(lexical)))

\* What fusion retrieval returns from the lists it drew: at most k results,
\* highest fused score first, no chunk_id twice, and no drawn chunk left out
\* that scores strictly higher than a returned one.
TopOfCandidates(results, vector, lexical, k) ==
    /\ Len(results) <= k
    /\ \A i \in 1..(Len(results) - 1) : ~RatLess(results[i].score, results[i + 1].score)
    /\ \A i, j \in DOMAIN results :
           results[i].doc.chunk_id = results[j].doc.chunk_id => i = j
    /\ \A c \in {vector[i] : i \in DOMAIN vector} \cup {lexical[i] : i \in DOMAIN lexical} :
           (\A i \in DOMAIN results : results[i].doc.chunk_id # c.chunk_id) =>
               \A i \in DOMAIN results :
                   ~RatLess(results[i].score, FusedScore(vector, lexical, c.chunk_id))

\* The number of candidates a mode draws for fusion: 2k, or all n chunks
\* when there are fewer.
Drawn(k, n) == IF 2 * k < n THEN 2 * k ELSE n

\* C26: fusion retrieval draws 2k candidates from the vector mode and 2k from
\* the lexical mode (all chunks where the adapter holds fewer), and returns
\* at most k of them, sorted by non-increasing fused score, no chunk_id
\* twice, no omitted candidate scoring strictly higher than a returned one.
C26_FusionDrawsTwoKReturnsTopK ==
    \A k \in KArgs, hits \in Hits(indexer), top \in Rankings(indexer.all_docs) :
        LET r == fusion_retrieve(indexer, hits, top, k)
            vector == Docs(vector_retrieve(indexer, hits, k * 2).ret)
            lexical == Docs(bm25_retrieve(indexer, top, k * 2).ret)
        IN  ~r.raised =>
                /\ Len(vector) = Drawn(k, Cardinality(indexer.vectorstore))
                /\ Len(lexical) = Drawn(k, Cardinality(indexer.all_docs))
                /\ TopOfCandidates(r.ret, vector, lexical, k)

\* C27: lexical retrieval scores the query against every chunk of the mirror
\* all_docs, returns no chunk whose BM25 score is zero or negative, and
\* returns at most k chunks, in non-increasing order of BM25 score.
C27_LexicalReturnsPositiveTopK ==
    \A k \in KArgs, scores \in ScoreMaps(indexer) :
        \A top \in TopRankings(indexer, scores) :
            LET r == bm25_retrieve(indexer, top, k)
            IN  ~r.raised =>
                    /\ \A i \in DOMAIN r.ret : r.ret[i].doc \in indexer.all_docs
                    /\ \A i \in DOMAIN r.ret : scores[r.ret[i].doc] > 0
                    /\ Len(r.ret) <= k
                    /\ \A i \in 1..(Len(r.ret) - 1) :
                           scores[r.ret[i].doc] >= scores[r.ret[i + 1].doc]

\* C28: on an adapter without chunks, retrieve returns an empty list and
\* raises nothing in the vector, the bm25 and the fusion mode.
C28_EmptyAdapterRetrievesNothing ==
    (indexer.vectorstore = {} /\ indexer.all_docs = {}) =>
        \A k \in KArgs, hits \in Hits(indexer), top \in Rankings(indexer.all_docs) :
            /\ vector_retrieve(indexer, hits, k) = [raised |-> FALSE, ret |-> <<>>]
            /\ bm25_retrieve(indexer, top, k) = [raised |-> FALSE, ret |-> <<>>]
            /\ fusion_retrieve(indexer, hits, top, k) = [raised |-> FALSE, ret |-> <<>>]

\* The documents of a knowledgebase.
DocumentsOf(d, knowledgebase_id) == {f \in d.files : f.knowledgebase_id = knowledgebase_id}

\* C29: when create_knowledgebase returns an id, exactly one document belongs
\* to that knowledgebase, in the connection's view and on disk: a folder
\* whose parent is null.
C29_NewKnowledgebaseHasOneRootFolder ==
    \A name \in KbNameArgs, root_path \in RootPathArgs :
        LET r == create_knowledgebase(conn, name, root_path, now)
        IN  ~r.raised =>
                /\ r.ret \in KbIds(r.conn.db)
                /\ Cardinality(DocumentsOf(r.conn.db, r.ret)) = 1
                /\ \A f \in DocumentsOf(r.conn.db, r.ret) :
                       f.type = "folder" /\ f.parent = 0 /\ f.filepath = root_path
                /\ DocumentsOf(r.conn.disk, r.ret) = DocumentsOf(r.conn.db, r.ret)

\* create_knowledgebase has returned the id of a knowledgebase that has its
\* root folder, after an earlier call failed on the root folder's path and
\* left its knowledgebase row behind.
C29_KnowledgebaseCreated ==
    /\ last.op = "create_knowledgebase" /\ ~last.raised
    /\ \E f \in db.files : f.knowledgebase_id = last.ret /\ f.type = "folder"
    /\ \E k \in db.knowledgebase : k.id < last.ret /\ DocumentsOf(db, k.id) = {}

\* C30: after delete_file or delete_file_by_path has deleted a document, no
\* parse_run row, no parsed row and no chunks row references it, in the
\* connection's view and on disk.
C30_DeletedDocumentIsUnreferenced ==
    /\ \A file_id \in FileIds(db) :
           LET r == delete_file(conn, file_id)
           IN  /\ ~r.raised /\ r.ret = TRUE
               /\ file_id \notin FileIds(r.conn.db)
               /\ Referencing(r.conn.db, file_id) = Referencing(InitDb, 0)
               /\ Referencing(r.conn.disk, file_id) = Referencing(InitDb, 0)
    /\ \A f \in db.files :
           LET r == delete_file_by_path(conn, f.filepath)
           IN  /\ ~r.raised /\ r.ret = f.file_id
               /\ f.file_id \notin FileIds(r.conn.db)
               /\ Referencing(r.conn.db, f.file_id) = Referencing(InitDb, 0)
               /\ Referencing(r.conn.disk, f.file_id) = Referencing(InitDb, 0)

\* delete_file has deleted a document that a parse run, a parsed record and a
\* chunk referenced.
C30_ReferencedDocumentDeleted ==
    /\ last.op = "delete_file" /\ last.ret.ret = TRUE
    /\ last.ret.referencing.parse_run > 0
    /\ last.ret.referencing.parsed > 0
    /\ last.ret.referencing.chunks > 0
    /\ Referencing(db, last.ret.file_id).chunks = 0

\* What a deletion of chunks from d to e does to the chunk runs: a run that
\* had a chunk and has none left is gone, a run that keeps a chunk is there
\* with the row it had.
EmptiedRunsGo(d, e) ==
    /\ \A id \in RunsWithChunks(d) \ RunsWithChunks(e) : id \notin ChunkRunIds(e)
    /\ \A id \in RunsWithChunks(e) : \E r \in e.chunk_run : r.id = id /\ r \in d.chunk_run

\* C31: delete_chunks_by_file_id, and delete_file with its cascade to the
\* chunks, remove every chunk run whose last chunk they delete and no chunk
\* run that still has a chunk, in the connection's view and on disk.
C31_ChunkRunGoesWithItsLastChunk ==
    /\ \A file_id \in FileIds(db) \cup FileArgs :
           LET r == delete_chunks_by_file_id(conn, file_id)
           IN  /\ ~r.raised
               /\ \A ch \in r.conn.db.chunks : ch.file_id # file_id
               /\ EmptiedRunsGo(db, r.conn.db)
               /\ r.conn.disk = r.conn.db
    /\ \A file_id \in FileIds(db) :
           LET r == delete_file(conn, file_id)
           IN  /\ EmptiedRunsGo(db, r.conn.db)
               /\ r.conn.disk = r.conn.db

\* delete_chunks_by_file_id has deleted the last chunk of a chunk run, and
\* the run is gone.
C31_LastChunkDeleted ==
    /\ last.op = "delete_chunks_by_file_id" /\ ~last.raised
    /\ last.ret.ret > 0
    /\ last.ret.emptied # {}
    /\ last.ret.emptied \cap ChunkRunIds(db) = {}

\* The active parsed records of the documents other than file_id.
ActiveOfOthers(d, file_id) == {r \in d.parsed : r.file_id # file_id /\ r.is_active = 1}

\* C32: a successful add_parsed_content(is_active = true) leaves the record
\* it created as the document's only active parsed record, a successful
\* set_active_parse_run leaves exactly one active parsed record for the
\* document, the one of the parse run it names, and neither changes which
\* records of other documents are active: the last successful call decides.
C32_LastWriterWins ==
    /\ \A f \in FileArgs, r \in ParseRunArgs, t \in 0..MaxTime :
           LET res == add_parsed_content(conn, f, r, t, TRUE)
           IN  ~res.raised =>
                   /\ {x.parse_id : x \in ActiveParsed(res.conn.db, f)} = {res.ret}
                   /\ ActiveOfOthers(res.conn.db, f) = ActiveOfOthers(db, f)
    /\ \A f \in FileArgs, r \in ParseRunArgs :
           LET res == set_active_parse_run(conn, f, r)
           IN  (~res.raised /\ res.ret = TRUE) =>
                   /\ Cardinality(ActiveParsed(res.conn.db, f)) = 1
                   /\ \A x \in ActiveParsed(res.conn.db, f) : x.parse_run_id = r
                   /\ ActiveOfOthers(res.conn.db, f) = ActiveOfOthers(db, f)

\* C33: a call of index_all_chunks that leaves no batch in progress leaves an
\* index run for its chunk run and embedding configuration only if every
\* chunk of that chunk run is in the vector index.
C33_IndexRunMeansChunksIndexed ==
    \A chunk_run_id \in ChunkRunArgs, embedding_config_id \in EmbArgs :
        LET res == index_all_chunks_start(conn, indexer, chunk_run_id, embedding_config_id)
        IN  (/\ res.batch.state # "running"
             /\ HasIndexRun(res.conn.disk, chunk_run_id, embedding_config_id)) =>
                {ch.chunk_id : ch \in get_chunks_by_chunk_run_id(res.conn.disk, chunk_run_id)}
                    \subseteq ChunkIds(res.ix.vectorstore)

\* The ids of the chunk runs desync_chunk_runs(kb, ids) is to touch: those of
\* knowledge base kb, all of them when ids is empty.
DesyncTargets(d, kb, ids) ==
    {x.id : x \in {y \in d.chunk_run : y.knowledgebase_id = kb /\ (ids = {} \/ y.id \in ids)}}

\* C34: desync_chunk_runs(kb, ids) returns the number of chunk runs of kb it
\* targets (all of kb's when ids is empty) and commits a chunk_run table that
\* differs from the one before only in in_sync = 0 on those runs: is_active
\* of every run and every field of the other knowledge bases' runs are as
\* before.
C34_DesyncTouchesOnlyTargets ==
    \A kb \in KbArgs, ids \in SUBSET ChunkRunArgs :
        LET res == desync_chunk_runs(conn, SqlInteger(kb), ids)
            target == DesyncTargets(db, kb, ids)
        IN  /\ ~res.raised
            /\ res.ret = Cardinality(target)
            /\ res.conn.disk.chunk_run =
                   {IF x.id \in target THEN [x EXCEPT !.in_sync = 0] ELSE x : x \in db.chunk_run}
            /\ \A x \in db.chunk_run : \E y \in res.conn.disk.chunk_run :
                   /\ y.id = x.id /\ y.is_active = x.is_active
                   /\ (x.knowledgebase_id # kb => y = x)

\* desync_chunk_runs has updated one chunk run of a knowledge base that has
\* another run still in sync, and a run of another knowledge base is in sync.
C34_OneRunDesynced ==
    /\ last.op = "desync_chunk_runs" /\ ~last.raised /\ last.ret = 1
    /\ \E x, y, z \in db.chunk_run :
           /\ x.knowledgebase_id = y.knowledgebase_id
           /\ x.in_sync = 0 /\ y.in_sync = 1
           /\ z.knowledgebase_id # x.knowledgebase_id /\ z.in_sync = 1

\* The cache of a process in which get_indexer is the only writer: no call
\* has stored an adapter.
indexers == <<>>

\* C35: for every knowledge base and every index run of the registry,
\* get_indexer returns an adapter for the run's chunk run and embedding
\* configuration and a second lookup returns the same adapter; and two
\* different (knowledge base, chunk run, embedding configuration) triples
\* have different cache keys.
C35_OneAdapterPerTriple ==
    /\ \A k \in db.knowledgebase, r \in db.index_run :
           LET first == get_indexer(indexers, k.name, r.chunk_run_id, r.embedding_configure_id)
               again == get_indexer(first.indexers, k.name, r.chunk_run_id,
                                    r.embedding_configure_id)
           IN  ~first.raised /\ ~again.raised /\ again.ret = first.ret
    /\ \A kb1, kb2 \in IndexerKbArgs, cr1, cr2 \in ChunkRunArgs, e1, e2 \in IndexerEmbArgs :
           <<kb1, cr1, e1>> # <<kb2, cr2, e2>> =>
               indexer_key(kb1, cr1, e1) # indexer_key(kb2, cr2, e2)

\* C36: no step sets in_sync of an existing chunk run from 0 back to 1; a
\* chunk run that is in sync after a step was in sync before it or has been
\* created by it.
C36_InSyncNeverReturns ==
    [][\A y \in db'.chunk_run :
           y.in_sync = 1 =>
               \/ \E x \in db.chunk_run : x.id = y.id /\ x.in_sync = 1
               \/ y.id \notin ChunkRunIds(db)]_vars

\* save_chunk_run_config and set_active_chunk_run have run on a knowledge
\* base that holds a chunk run out of sync: the new run is in sync, the old
\* one, made active again, is not.
C36_DesyncedRunReactivated ==
    /\ last.op = "set_active_chunk_run" /\ ~last.raised
    /\ \E x, y \in db.chunk_run :
           /\ x.knowledgebase_id = y.knowledgebase_id
           /\ x.id < y.id
           /\ x.in_sync = 0 /\ x.is_active = 1
           /\ y.in_sync = 1

\* C37: index_all_chunks on a chunk run with chunks that has no index run yet
\* reaches its batches, and every batch of the run's chunks, however the
\* chunks are cut into batches, reports success and leaves its chunks in the
\* adapter's mirror.
C37_BatchesFillTheMirror ==
    \A cr \in db.chunk_run, embedding_config_id \in EmbIds(db) :
        LET chunks == get_chunks_by_chunk_run_id(db, cr.id)
            res == index_all_chunks_start(conn, indexer, cr.id, embedding_config_id)
        IN  (chunks # {} /\ res.batch.started) =>
                /\ res.batch.state = "running"
                /\ \A b \in SUBSET chunks \ {{}} :
                       LET r == index_single_batch(res.ix, b)
                       IN  /\ r.result.status = "success"
                           /\ {ch.chunk_id : ch \in b} \subseteq ChunkIds(r.ix.all_docs)

ParsedOf(d, file_id) == {p \in d.parsed : p.file_id = file_id}

ActiveKnowledgebases(d) == {k \in d.knowledgebase : k.is_active = 1}

\* C39: at most one knowledge base is active, in what the connection sees and
\* in what is committed, and a create_knowledgebase that fails leaves the
\* knowledgebase and files tables the connection sees as they were, so that
\* no later commit can store a row of the failed call.
C39_OneActiveAndFailedCreateLeavesNothing ==
    /\ Cardinality(ActiveKnowledgebases(db)) <= 1
    /\ Cardinality(ActiveKnowledgebases(conn.disk)) <= 1
    /\ \A name \in KbNameArgs, root_path \in RootPathArgs :
           LET res == create_knowledgebase(conn, name, root_path, now)
           IN  res.raised =>
                   /\ res.conn.db.knowledgebase = db.knowledgebase
                   /\ res.conn.db.files = db.files
==============================================================================
